---- MODULE Spec2Model ----
(***************************************************************************)
(* A state-machine model of the gtfstidy feed processors.                  *)
(*                                                                         *)
(* Every processor is a Run(feed) method that rewrites the in-memory feed  *)
(* in place.  The model keeps the feed in `feed`, a snapshot of the input  *)
(* feed in `feed0` (a history variable, never read by an action's guard),  *)
(* the position of the running processor in `pc` and the processor's own   *)
(* fields and locals in `loc`.  Each processor has its own initial         *)
(* predicate, next-state relation and specification.                       *)
(*                                                                         *)
(* Dates are day numbers; day 0 is a Sunday, so the weekday of day d is    *)
(* d % 7 in Go's numbering (Sunday = 0).  The empty date gtfs.Date{} is    *)
(* NoDate, which lies before every other date.                             *)
(***************************************************************************)
EXTENDS Integers, Sequences, FiniteSets, TLC

VARIABLES feed, feed0, pc, loc

vars == <<feed, feed0, pc, loc>>

\* ---------------------------------------------------------------------
\* Bounds of the explored input space
\* ---------------------------------------------------------------------

\* last day number of the calendar horizon of the service minimizer inputs
MaxDay == 10

\* number of worker goroutines: the value MaxParallelism() returns
MaxParallelism == 2

\* ---------------------------------------------------------------------
\* Generic helpers
\* ---------------------------------------------------------------------

NoDate == 0 - 1

Min(S) == CHOOSE x \in S : \A y \in S : x <= y

Max(S) == CHOOSE x \in S : \A y \in S : x >= y

\* Go's integer division truncates toward zero
GoDiv(a, b) == IF a >= 0 THEN a \div b ELSE 0 - ((0 - a) \div b)

\* all sequences that enumerate the set S once: the orders in which a Go
\* `range` over a map with key set S can visit the keys
RECURSIVE Perms(_)
Perms(S) ==
  IF S = {} THEN {<<>>}
  ELSE UNION {{<<x>> \o p : p \in Perms(S \ {x})} : x \in S}

Range(f) == {f[x] : x \in DOMAIN f}

\* ---------------------------------------------------------------------
\* gtfs.Service as the processors use it
\* ---------------------------------------------------------------------
\* A service is a record [start, end, daymap, exc]: the calendar.txt range
\* and weekday set, and the calendar_dates.txt exceptions as a function
\* from dates to BOOLEAN (TRUE: service added, FALSE: service removed).

IsActiveOn(s, d) ==
  IF d \in DOMAIN s.exc THEN s.exc[d]
  ELSE /\ s.start # NoDate
       /\ (d % 7) \in s.daymap
       /\ s.start <= d
       /\ d <= s.end

SetExceptionTypeOn(s, d, t) ==
  [s EXCEPT !.exc = [x \in (DOMAIN s.exc) \cup {d} |->
                       IF x = d THEN (t = 1) ELSE s.exc[x]]]

GetFirstDefinedDate(s) ==
  LET ds == (DOMAIN s.exc) \cup (IF s.start = NoDate THEN {} ELSE {s.start})
  IN IF ds = {} THEN NoDate ELSE Min(ds)

GetLastDefinedDate(s) ==
  LET ds == (DOMAIN s.exc) \cup (IF s.end = NoDate THEN {} ELSE {s.end})
  IN IF ds = {} THEN NoDate ELSE Max(ds)

\* the set of dates a service is active on (every active date lies between
\* the first and the last defined date)
ActiveDays(s) ==
  {d \in GetFirstDefinedDate(s) .. GetLastDefinedDate(s) :
     d # NoDate /\ IsActiveOn(s, d)}

GetFirstActiveDate(s) ==
  IF ActiveDays(s) = {} THEN NoDate ELSE Min(ActiveDays(s))

GetLastActiveDate(s) ==
  IF ActiveDays(s) = {} THEN NoDate ELSE Max(ActiveDays(s))

\* ---------------------------------------------------------------------
\* ServiceMinimizer
\* ---------------------------------------------------------------------

\* ^uint(0), the initial value of the best exception count; it stands for
\* the largest unsigned integer and exceeds every count the model reaches
MaxUint == 2147483647

hasBit(n, pos) == (n \div (2 ^ pos)) % 2 = 1

RECURSIVE cropFirst(_, _, _)
cropFirst(s, first, last) ==
  IF first < last /\ ~IsActiveOn(s, first)
  THEN cropFirst(s, first + 1, last) ELSE first

RECURSIVE cropLast(_, _, _)
cropLast(s, first, last) ==
  IF last > first /\ ~IsActiveOn(s, last)
  THEN cropLast(s, first, last - 1) ELSE last

GetDateRange(s) ==
  LET first == cropFirst(s, GetFirstDefinedDate(s), GetLastDefinedDate(s))
  IN [Start |-> first, End |-> cropLast(s, first, GetLastDefinedDate(s))]

\* activeOn[i + 1] is the Go slice element activeOn[i]
getActiveOnMap(startTimeAm, endTimeAm, s) ==
  [i \in 1 .. (endTimeAm - startTimeAm + 1) |->
     IsActiveOn(s, startTimeAm + i - 1)]

getDaysNotMatched(s) ==
  [d \in 1 .. 127 |-> Cardinality({i \in s.daymap : ~hasBit(d, i)})]

RECURSIVE ceLoop(_, _, _, _, _, _, _, _)
ceLoop(actmap, bm, a, b, max, l, d, ret) ==
  IF d >= l THEN ret
  ELSE IF ret >= max THEN max
  ELSE LET miss == IF d < a \/ d > b THEN actmap[d + 1]
                   ELSE IF hasBit(bm, d % 7) THEN ~actmap[d + 1]
                   ELSE actmap[d + 1]
       IN ceLoop(actmap, bm, a, b, max, l, d + 1,
                 IF miss THEN ret + 1 ELSE ret)

countExceptions(s, actmap, bm, startDiff, endDiff, a, b, max) ==
  LET l == IF Len(actmap) > (0 - endDiff) + 1
           THEN (0 - endDiff) + 1 ELSE Len(actmap)
  IN ceLoop(actmap, bm, a, b, max, l, 0 - startDiff, 0)

\* updateService without the exceptions for the active dates that the new
\* calendar range leaves out
updateServiceInsideOnly(s, bestMap, bestA, bestB, start, end) ==
  LET newBegin == cropFirst(s, start + bestA, start + bestB)
      newEnd == cropLast(s, newBegin, start + bestB)
      newMap == IF newBegin = newEnd THEN {}
                ELSE {i \in 0 .. 6 : hasBit(bestMap, i)}
      inside == {st \in start .. end : st >= newBegin /\ st <= newEnd}
      added == {st \in inside : IsActiveOn(s, st) /\ (st % 7) \notin newMap}
      removed == {st \in inside : ~IsActiveOn(s, st) /\ (st % 7) \in newMap}
  IN [start |-> newBegin, end |-> newEnd, daymap |-> newMap,
      exc |-> [d \in added \cup removed |-> d \in added]]

updateService(s, bestMap, bestA, bestB, start, end) ==
  LET begin0 == start + bestA
      end0 == start + bestB
      newBegin == cropFirst(s, begin0, end0)
      newEnd == cropLast(s, newBegin, end0)
      newMap == IF newBegin = newEnd THEN {}
                ELSE {i \in 0 .. 6 : hasBit(bestMap, i)}
      added == {st \in start .. end :
                  /\ IsActiveOn(s, st)
                  /\ \/ st < newBegin
                     \/ st > newEnd
                     \/ (st % 7) \notin newMap}
      removed == {st \in start .. end :
                    /\ ~IsActiveOn(s, st)
                    /\ st >= newBegin
                    /\ st <= newEnd
                    /\ (st % 7) \in newMap}
  IN [start |-> newBegin, end |-> newEnd, daymap |-> newMap,
      exc |-> [d \in added \cup removed |-> d \in added]]

\* one iteration of the loop over the bitmaps d of perfectMinimize;
\* best is [e, bestMap, bestA, bestB, out], out being the `break out`
pmMap(s, activeOn, dnm, startDiff, endDiff, a, b, d, best) ==
  LET fullWeekCoverage == GoDiv((b - a) - 7, 7)
      minExc == fullWeekCoverage * dnm[d] - Cardinality(DOMAIN s.exc)
      c == countExceptions(s, activeOn, d, startDiff, endDiff, a, b, best.e)
  IN IF minExc > (0 - 1) /\ minExc > best.e THEN best
     ELSE IF c < best.e
     THEN [e |-> c, bestMap |-> d, bestA |-> a, bestB |-> b, out |-> c = 0]
     ELSE best

\* the iterations lo .. hi of that loop, in order, split in halves
RECURSIVE pmMaps(_, _, _, _, _, _, _, _, _, _)
pmMaps(s, activeOn, dnm, startDiff, endDiff, a, b, lo, hi, best) ==
  IF best.out THEN best
  ELSE IF lo = hi
  THEN pmMap(s, activeOn, dnm, startDiff, endDiff, a, b, lo, best)
  ELSE LET mid == (lo + hi) \div 2
       IN pmMaps(s, activeOn, dnm, startDiff, endDiff, a, b, mid + 1, hi,
                 pmMaps(s, activeOn, dnm, startDiff, endDiff, a, b,
                        lo, mid, best))

\* the loops over a and b of perfectMinimize
RECURSIVE pmSpans(_, _, _, _, _, _, _, _)
pmSpans(s, activeOn, dnm, startDiff, endDiff, a, b, best) ==
  IF best.out \/ a >= Len(activeOn) THEN best
  ELSE IF b <= a
  THEN pmSpans(s, activeOn, dnm, startDiff, endDiff,
               a + 7, Len(activeOn) - 1, best)
  ELSE pmSpans(s, activeOn, dnm, startDiff, endDiff, a, b - 7,
               pmMaps(s, activeOn, dnm, startDiff, endDiff, a, b, 1, 127, best))

perfectMinimize(s) ==
  IF Cardinality(DOMAIN s.exc) = 0 THEN s
  ELSE LET dRange == GetDateRange(s)
           start == dRange.Start
           end == dRange.End
           startTimeAm == start - (start % 7)
           endTimeAm == end + (6 - (end % 7))
           activeOn == getActiveOnMap(startTimeAm, endTimeAm, s)
           best == pmSpans(s, activeOn, getDaysNotMatched(s),
                           startTimeAm - start, startTimeAm - end,
                           0, Len(activeOn) - 1,
                           [e |-> MaxUint, bestMap |-> 0, bestA |-> 0,
                            bestB |-> 0, out |-> FALSE])
       IN updateService(s, best.bestMap, best.bestA, best.bestB, start, end)

\* the chunks Run deals the services into, visiting them in `order`
RECURSIVE smChunks(_, _, _, _)
smChunks(order, chunks, curchunk, chunksize) ==
  IF order = <<>> THEN chunks
  ELSE LET filled == [chunks EXCEPT ![curchunk] = Append(@, Head(order))]
       IN smChunks(Tail(order), filled,
                   IF Len(filled[curchunk]) = chunksize
                   THEN curchunk + 1 ELSE curchunk,
                   chunksize)

\* exception tables with at most two entries, on the first two days of two
\* successive weeks and the last day of the horizon
SMExceptions ==
  UNION {[ds -> BOOLEAN] :
           ds \in {x \in SUBSET {0, 1, 7, 8, MaxDay} : Cardinality(x) <= 2}}

SMDaymaps == {{1, 2, 3, 4, 5}, {0, 1, 2, 3, 4, 5, 6}}

\* services that only have calendar_dates.txt rows
SMDateServices ==
  {[start |-> NoDate, end |-> NoDate, daymap |-> {}, exc |-> ex] :
     ex \in SMExceptions}

\* services that only have calendar_dates.txt rows, active on one or two
\* dates of a first week that starts on a Monday and on the Sunday, Tuesday
\* and Wednesday of the week after it
SMTwoWeekServices ==
  {[start |-> NoDate, end |-> NoDate, daymap |-> {},
    exc |-> [d \in w1 \cup {7, 9, 10} |-> TRUE]] : w1 \in {{1}, {1, 5}}}

\* services with a calendar.txt row
SMCalendarServices ==
  {s \in {[start |-> st, end |-> en, daymap |-> dm, exc |-> ex] :
            st \in {0, 3}, en \in {3, MaxDay - 1, MaxDay},
            dm \in SMDaymaps, ex \in SMExceptions} :
     s.start <= s.end}

\* the second service of a feed with two services
SMOtherServices ==
  {[start |-> 1, end |-> 5, daymap |-> {1, 2, 3},
    exc |-> [d \in {3, 6} |-> d = 6]]}

SMInit ==
  /\ \/ \E a \in SMCalendarServices \cup SMDateServices
                    \cup SMTwoWeekServices :
          feed = [Services |-> [id \in {"a"} |-> a]]
     \/ \E a \in SMDateServices, b \in SMOtherServices :
          feed = [Services |-> [id \in {"a", "b"} |->
                                  IF id = "a" THEN a ELSE b]]
  /\ feed0 = feed
  /\ pc = "start"
  /\ loc = <<>>

\* Run up to the start of the goroutines
SMRun ==
  /\ pc = "start"
  /\ \E order \in Perms(DOMAIN feed.Services) :
       LET numchunks == MaxParallelism
           chunksize == GoDiv(Len(order) + numchunks - 1, numchunks)
       IN loc' = [chunks |-> smChunks(order, [c \in 1 .. numchunks |-> <<>>],
                                      1, chunksize),
                  next |-> [c \in 1 .. numchunks |-> 1],
                  sent |-> [c \in 1 .. numchunks |-> FALSE],
                  sem |-> 0,
                  i |-> 0]
  /\ pc' = "workers"
  /\ UNCHANGED <<feed, feed0>>

\* one iteration of a goroutine's loop over its chunk
SMMinimize(c) ==
  /\ pc = "workers"
  /\ loc.next[c] <= Len(loc.chunks[c])
  /\ LET id == loc.chunks[c][loc.next[c]]
     IN feed' = [feed EXCEPT !.Services[id] = perfectMinimize(@)]
  /\ loc' = [loc EXCEPT !.next[c] = @ + 1]
  /\ UNCHANGED <<feed0, pc>>

\* sem <- empty{}
SMSend(c) ==
  /\ pc = "workers"
  /\ loc.next[c] > Len(loc.chunks[c])
  /\ ~loc.sent[c]
  /\ loc' = [loc EXCEPT !.sent[c] = TRUE, !.sem = @ + 1]
  /\ UNCHANGED <<feed, feed0, pc>>

\* <-sem in the loop that waits for the goroutines
SMReceive ==
  /\ pc = "workers"
  /\ loc.i < Len(loc.chunks)
  /\ loc.sem > 0
  /\ loc' = [loc EXCEPT !.sem = @ - 1, !.i = @ + 1]
  /\ UNCHANGED <<feed, feed0, pc>>

SMReturn ==
  /\ pc = "workers"
  /\ loc.i >= Len(loc.chunks)
  /\ pc' = "done"
  /\ UNCHANGED <<feed, feed0, loc>>

SMNext ==
  \/ SMRun
  \/ \E c \in 1 .. MaxParallelism : SMMinimize(c)
  \/ \E c \in 1 .. MaxParallelism : SMSend(c)
  \/ SMReceive
  \/ SMReturn

SpecSM == SMInit /\ [][SMNext]_vars

\* C2: when the service minimizer has run, every service is active on a
\* date exactly when it was active on that date in the input feed, for
\* every date of the horizon and the two weeks after it
C2_ActiveDaysPreserved ==
  pc = "done" =>
    \A id \in DOMAIN feed0.Services :
      /\ id \in DOMAIN feed.Services
      /\ \A d \in 0 .. (MaxDay + 14) :
           IsActiveOn(feed.Services[id], d)
             <=> IsActiveOn(feed0.Services[id], d)

\* the minimizer has rewritten a service into one with a weekday map whose
\* calendar range leaves out a date the input service is active on
C2_Witness ==
  /\ pc = "done"
  /\ \E id \in DOMAIN feed.Services :
       /\ feed.Services[id] # feed0.Services[id]
       /\ feed.Services[id].daymap # {}
       /\ \E d \in ActiveDays(feed0.Services[id]) :
            d < feed.Services[id].start \/ d > feed.Services[id].end

\* ---------------------------------------------------------------------
\* ServiceDuplicateRemover
\* ---------------------------------------------------------------------

\* number of values of the 32 bit hashes in the model: distinct inputs
\* collide, as they can under FNV
HashValues == 2

\* the subsequence of seq of the elements in S
SelectIn(seq, S) == SelectSeq(seq, LAMBDA x : x \in S)

RECURSIVE Concat(_)
Concat(seqs) == IF seqs = <<>> THEN <<>> ELSE Head(seqs) \o Concat(Tail(seqs))

\* a stand-in for the FNV hash of the active map and the two dates: equal
\* inputs hash equally, and some unequal inputs do too
serviceHash(active, first, last) ==
  (Len(active) + first + last + 2) % HashValues

\* a variant of serviceCompressed that hashes the number of exceptions
serviceCompressedOfRows(s) ==
  LET first == GetFirstActiveDate(s)
      last == GetLastActiveDate(s)
  IN [start |-> first, end |-> last,
      activeMap |-> getActiveOnMap(first, last, s),
      hash |-> Cardinality(DOMAIN s.exc) % HashValues]

\* the ServiceCompressed of one service
serviceCompressed(s) ==
  LET first == GetFirstActiveDate(s)
      last == GetLastActiveDate(s)
      activeMap == getActiveOnMap(first, last, s)
  IN [start |-> first, end |-> last, activeMap |-> activeMap,
      hash |-> serviceHash(activeMap, first, last)]

\* the goroutines fill disjoint maps that are united after the barrier
getActiveMaps(f) ==
  [id \in DOMAIN f.Services |-> serviceCompressed(f.Services[id])]

\* the chunks of every hash value, the services visited in `order`
getServiceChunks(order, amaps) ==
  [h \in {amaps[id].hash : id \in DOMAIN amaps} |->
     LET services == SelectIn(order, {id \in DOMAIN amaps : amaps[id].hash = h})
         numchunks == MaxParallelism
         chunksize == GoDiv(Len(services) + numchunks - 1, numchunks)
     IN smChunks(services, [c \in 1 .. numchunks |-> <<>>], 1, chunksize)]

\* servEqual without the comparison of the active maps
servEqualEnds(a, b) == a.start = b.start /\ a.end = b.end

servEqual(a, b) ==
  /\ a.start = b.start
  /\ a.end = b.end
  /\ Len(a.activeMap) = Len(b.activeMap)
  /\ \A i \in DOMAIN a.activeMap : a.activeMap[i] = b.activeMap[i]

\* every goroutine filters its chunk; the results are appended in the
\* order of the chunks
getEquivalentServices(serv, amaps, chunks) ==
  Concat([c \in DOMAIN chunks |->
            SelectIn(chunks[c],
                     {x \in DOMAIN amaps :
                        x # serv /\ servEqual(amaps[x], amaps[serv])})])

\* the reference of combineServices: the first service of the slice with
\* the least number of exceptions
RECURSIVE sdrRef(_, _, _)
sdrRef(f, services, ref) ==
  IF services = <<>> THEN ref
  ELSE sdrRef(f, Tail(services),
              IF Cardinality(DOMAIN f.Services[Head(services)].exc)
                   < Cardinality(DOMAIN f.Services[ref].exc)
              THEN Head(services) ELSE ref)

sdrCombineServices(f, services, trips) ==
  LET ref == sdrRef(f, services, services[1])
      gone == {services[i] : i \in DOMAIN services} \ {ref}
  IN [f EXCEPT
        !.Trips = [t \in DOMAIN f.Trips |->
                     IF \E x \in gone :
                          t \in trips[x] /\ f.Trips[t].Service = x
                     THEN [f.Trips[t] EXCEPT !.Service = ref]
                     ELSE f.Trips[t]],
        !.Services = [x \in (DOMAIN f.Services) \ gone |-> f.Services[x]]]

\* services with equal and with nearly equal sets of active dates
SDRServices ==
  {[start |-> 1, end |-> 5, daymap |-> {1, 2, 3, 4, 5}, exc |-> <<>>],
   [start |-> NoDate, end |-> NoDate, daymap |-> {},
    exc |-> [d \in 1 .. 5 |-> TRUE]],
   [start |-> 0, end |-> MaxDay, daymap |-> {1, 2, 3, 4, 5},
    exc |-> [d \in 6 .. MaxDay |-> FALSE]],
   [start |-> 1, end |-> 5, daymap |-> {1, 2, 3, 4, 5},
    exc |-> [d \in {3} |-> FALSE]],
   [start |-> 1, end |-> 4, daymap |-> {1, 2, 3, 4, 5}, exc |-> <<>>],
   [start |-> 1, end |-> 5, daymap |-> {}, exc |-> <<>>],
   [start |-> NoDate, end |-> NoDate, daymap |-> {},
    exc |-> [d \in {2} |-> FALSE]]}

SDRServiceIds == {"s1", "s2", "s3"}

SDRTripIds == {"t1", "t2"}

SDRInit ==
  /\ \E ss \in [SDRServiceIds -> SDRServices] :
     \E ts \in [SDRTripIds -> SDRServiceIds] :
       feed = [Services |-> ss,
               Trips |-> [t \in SDRTripIds |-> [Service |-> ts[t]]]]
  /\ feed0 = feed
  /\ pc = "start"
  /\ loc = <<>>

\* Run up to the loop over the services
SDRRun ==
  /\ pc = "start"
  /\ \E order \in Perms(DOMAIN feed.Services) :
       LET amaps == getActiveMaps(feed)
       IN loc' = [trips |-> [x \in DOMAIN feed.Services |->
                               {t \in DOMAIN feed.Trips :
                                  feed.Trips[t].Service = x}],
                  amaps |-> amaps,
                  chunks |-> getServiceChunks(order, amaps),
                  proced |-> {},
                  visited |-> {}]
  /\ pc' = "loop"
  /\ UNCHANGED <<feed, feed0>>

\* one iteration of the loop over feed.Services; services deleted by an
\* earlier iteration are not visited any more
SDRVisit ==
  /\ pc = "loop"
  /\ \E s \in (DOMAIN feed.Services) \ loc.visited :
       LET eqServices == getEquivalentServices(
                           s, loc.amaps, loc.chunks[loc.amaps[s].hash])
       IN IF s \notin loc.proced /\ Len(eqServices) > 0
          THEN /\ feed' = sdrCombineServices(feed, Append(eqServices, s),
                                             loc.trips)
               /\ loc' = [loc EXCEPT
                            !.visited = @ \cup {s},
                            !.proced = @ \cup {s} \cup Range(eqServices)]
          ELSE /\ feed' = feed
               /\ loc' = [loc EXCEPT !.visited = @ \cup {s}]
  /\ UNCHANGED <<feed0, pc>>

SDRReturn ==
  /\ pc = "loop"
  /\ (DOMAIN feed.Services) \ loc.visited = {}
  /\ pc' = "done"
  /\ UNCHANGED <<feed, feed0, loc>>

SDRNext == SDRRun \/ SDRVisit \/ SDRReturn

SpecSDR == SDRInit /\ [][SDRNext]_vars

\* C4: when the service duplicate remover has run, the service of every
\* trip is in the feed and is active on exactly the dates the service the
\* trip referenced in the input feed was active on
C4_MergesOnlyEqualServices ==
  pc = "done" =>
    \A t \in DOMAIN feed0.Trips :
      /\ t \in DOMAIN feed.Trips
      /\ feed.Trips[t].Service \in DOMAIN feed.Services
      /\ \A d \in 0 .. (MaxDay + 7) :
           IsActiveOn(feed.Services[feed.Trips[t].Service], d)
             <=> IsActiveOn(feed0.Services[feed0.Trips[t].Service], d)

\* the run has retargeted a trip to another service
C4_Witness ==
  /\ pc = "done"
  /\ \E t \in DOMAIN feed.Trips :
       feed.Trips[t].Service # feed0.Trips[t].Service

\* ---------------------------------------------------------------------
\* RouteDuplicateRemover
\* ---------------------------------------------------------------------
\* A route is a record of its attributes; strings, enums and the agency
\* pointer are small numbers, NoUrl is the nil URL.  A fare attribute is a
\* record [Rules], a sequence of rules [Route, Origin_id, Destination_id,
\* Contains_id].

NoUrl == 0 - 1

\* a stand-in for the FNV hash of agency, names, description, type and
\* colours
routeHash(r) ==
  (r.Agency + r.Short_name + r.Long_name + r.Desc + r.Type + r.Color
     + r.Text_color) % HashValues

\* a and b are ids of routes of the feed f; two non-nil URLs are equal
\* when their strings are, and a nil URL only equals a nil URL
routeEquals(a, b, f) ==
  /\ f.RoutesAddFlds[a] = f.RoutesAddFlds[b]
  /\ f.Routes[a].Agency = f.Routes[b].Agency
  /\ f.Routes[a].Short_name = f.Routes[b].Short_name
  /\ f.Routes[a].Long_name = f.Routes[b].Long_name
  /\ f.Routes[a].Desc = f.Routes[b].Desc
  /\ f.Routes[a].Type = f.Routes[b].Type
  /\ f.Routes[a].Continuous_drop_off = f.Routes[b].Continuous_drop_off
  /\ f.Routes[a].Continuous_pickup = f.Routes[b].Continuous_pickup
  /\ \/ /\ f.Routes[a].Url # NoUrl
        /\ f.Routes[b].Url # NoUrl
        /\ f.Routes[a].Url = f.Routes[b].Url
     \/ /\ f.Routes[a].Url = NoUrl
        /\ f.Routes[b].Url = NoUrl
  /\ f.Routes[a].Color = f.Routes[b].Color
  /\ f.Routes[a].Text_color = f.Routes[b].Text_color

ruleMatches(r, o) ==
  /\ r.Origin_id = o.Origin_id
  /\ r.Destination_id = o.Destination_id
  /\ r.Contains_id = o.Contains_id

\* seq without its first element that matches the rule r
RECURSIVE removeFirstMatch(_, _)
removeFirstMatch(seq, r) ==
  IF seq = <<>> THEN <<>>
  ELSE IF ruleMatches(r, Head(seq)) THEN Tail(seq)
  ELSE <<Head(seq)>> \o removeFirstMatch(Tail(seq), r)

\* the loop of fareRulesEqual over attr.Rules
RECURSIVE fareRulesLoop(_, _, _, _, _)
fareRulesLoop(rules, a, b, rulesA, rulesB) ==
  IF rules = <<>> THEN Len(rulesA) = 0 /\ Len(rulesB) = 0
  ELSE LET r == Head(rules)
       IN IF r.Route = a
          THEN IF \E i \in DOMAIN rulesB : ruleMatches(r, rulesB[i])
               THEN fareRulesLoop(Tail(rules), a, b, rulesA,
                                  removeFirstMatch(rulesB, r))
               ELSE fareRulesLoop(Tail(rules), a, b, Append(rulesA, r), rulesB)
          ELSE IF r.Route = b
          THEN IF \E i \in DOMAIN rulesA : ruleMatches(r, rulesA[i])
               THEN fareRulesLoop(Tail(rules), a, b,
                                  removeFirstMatch(rulesA, r), rulesB)
               ELSE fareRulesLoop(Tail(rules), a, b, rulesA, Append(rulesB, r))
          ELSE fareRulesLoop(Tail(rules), a, b, rulesA, rulesB)

\* fareRulesEqual that only looks for the rules of a among those of b
fareRulesCovered(attr, a, b) ==
  \A i \in DOMAIN attr.Rules :
    attr.Rules[i].Route = a =>
      \E j \in DOMAIN attr.Rules :
        attr.Rules[j].Route = b /\ ruleMatches(attr.Rules[i], attr.Rules[j])

fareRulesEqual(attr, a, b) == fareRulesLoop(attr.Rules, a, b, <<>>, <<>>)

checkFareEquality(f, a, b) ==
  \A fa \in DOMAIN f.FareAttributes :
    (\E i \in DOMAIN f.FareAttributes[fa].Rules :
       f.FareAttributes[fa].Rules[i].Route \in {a, b})
      => fareRulesEqual(f.FareAttributes[fa], a, b)

getRouteChunks(order, f) ==
  [h \in {routeHash(f.Routes[id]) : id \in DOMAIN f.Routes} |->
     LET routes == SelectIn(order, {id \in DOMAIN f.Routes :
                                      routeHash(f.Routes[id]) = h})
         numchunks == MaxParallelism
         chunksize == GoDiv(Len(routes) + numchunks - 1, numchunks)
     IN smChunks(routes, [c \in 1 .. numchunks |-> <<>>], 1, chunksize)]

getEquivalentRoutes(route, f, chunks) ==
  Concat([c \in DOMAIN chunks |->
            SelectIn(chunks[c],
                     {r \in DOMAIN f.Routes :
                        /\ r # route
                        /\ routeEquals(r, route, f)
                        /\ checkFareEquality(f, route, r)})])

\* a variant of rdrRef that keeps the first route of the slice
rdrRefFirst(routes, ref) == ref

\* the reference of combineRoutes: the first route of the slice with the
\* shortest id
RECURSIVE rdrRef(_, _)
rdrRef(routes, ref) ==
  IF routes = <<>> THEN ref
  ELSE rdrRef(Tail(routes),
              IF Len(Head(routes)) < Len(ref) THEN Head(routes) ELSE ref)

\* the body of the loop of combineRoutes for a route r other than ref
combineRoute(f, r, ref, trips) ==
  LET kept(fa) == SelectSeq(f.FareAttributes[fa].Rules,
                            LAMBDA fr : fr.Route # r)
      deleted == {fa \in DOMAIN f.FareAttributes :
                    Len(kept(fa)) = 0
                      /\ Len(f.FareAttributes[fa].Rules) # 0}
  IN [f EXCEPT
        !.Trips = [t \in DOMAIN f.Trips |->
                     IF t \in trips[r] /\ f.Trips[t].Route = r
                     THEN [f.Trips[t] EXCEPT !.Route = ref]
                     ELSE f.Trips[t]],
        !.Routes = [x \in (DOMAIN f.Routes) \ {r} |->
                      IF x = ref
                      THEN [f.Routes[x] EXCEPT
                              !.Attributions = @ \o f.Routes[r].Attributions]
                      ELSE f.Routes[x]],
        !.RoutesAddFlds = [x \in (DOMAIN f.RoutesAddFlds) \ {r} |->
                             f.RoutesAddFlds[x]],
        !.FareAttributes = [fa \in (DOMAIN f.FareAttributes) \ deleted |->
                              [f.FareAttributes[fa] EXCEPT !.Rules = kept(fa)]]]

RECURSIVE combineRoutesLoop(_, _, _, _)
combineRoutesLoop(f, routes, ref, trips) ==
  IF routes = <<>> THEN f
  ELSE combineRoutesLoop(
         IF Head(routes) = ref THEN f
         ELSE combineRoute(f, Head(routes), ref, trips),
         Tail(routes), ref, trips)

combineRoutes(f, routes, trips) ==
  combineRoutesLoop(f, routes, rdrRef(routes, routes[1]), trips)

\* the attributes of a route, one value and its alternative each
RDRBase ==
  [Agency |-> 0, Short_name |-> 0, Long_name |-> 0, Desc |-> 0, Type |-> 0,
   Continuous_drop_off |-> 0, Continuous_pickup |-> 0, Url |-> 0,
   Color |-> 0, Text_color |-> 0, Attributions |-> <<>>]

\* the base route and the routes that differ from it in one attribute
RDRRoutes ==
  {RDRBase,
   [RDRBase EXCEPT !.Agency = 1], [RDRBase EXCEPT !.Short_name = 1],
   [RDRBase EXCEPT !.Long_name = 1], [RDRBase EXCEPT !.Desc = 1],
   [RDRBase EXCEPT !.Type = 1], [RDRBase EXCEPT !.Continuous_drop_off = 1],
   [RDRBase EXCEPT !.Continuous_pickup = 1], [RDRBase EXCEPT !.Url = 1],
   [RDRBase EXCEPT !.Url = NoUrl], [RDRBase EXCEPT !.Color = 1],
   [RDRBase EXCEPT !.Text_color = 1],
   [RDRBase EXCEPT !.Attributions = <<"at1">>]}

RDRRouteIds == {"r1", "a:1", "r3"}

\* fare rules: a route and one of two (origin, destination, contains) keys
RDRRules ==
  {[Route |-> r, Origin_id |-> o, Destination_id |-> 0, Contains_id |-> 0] :
     r \in {"r1", "a:1"}, o \in {0, 1}}

\* the rule lists of a fare attribute, up to MaxRules long
MaxRules == 3

RDRRuleLists == UNION {[1 .. n -> RDRRules] : n \in 0 .. MaxRules}

RDRInit ==
  /\ \E r2 \in RDRRoutes, r3 \in {RDRBase, [RDRBase EXCEPT !.Url = NoUrl]},
        add \in {0, 1}, rules \in RDRRuleLists :
       feed = [Routes |-> [id \in RDRRouteIds |->
                             IF id = "r1" THEN RDRBase
                             ELSE IF id = "a:1" THEN r2 ELSE r3],
               RoutesAddFlds |-> [id \in RDRRouteIds |->
                                    IF id = "r3" THEN add ELSE 0],
               Trips |-> [t \in {"t1", "t22", "t3"} |->
                            [Route |-> IF t = "t1" THEN "r1"
                                       ELSE IF t = "t22" THEN "a:1"
                                       ELSE "r3"]],
               FareAttributes |-> [fa \in {"f1"} |-> [Rules |-> rules]],
               Transfers |-> {[From_route |-> "a:1", To_route |-> "r3"]}]
  /\ feed0 = feed
  /\ pc = "start"
  /\ loc = <<>>

\* gtfsparser's Feed.CleanTransfers for transfers between routes: the
\* transfers whose routes are not both in the feed are dropped
CleanRouteTransfers(f) ==
  [f EXCEPT !.Transfers = {tk \in @ : /\ tk.From_route \in DOMAIN f.Routes
                                      /\ tk.To_route \in DOMAIN f.Routes}]

\* Run up to the loop over the routes
RDRRun ==
  /\ pc = "start"
  /\ \E order \in Perms(DOMAIN feed.Routes) :
       loc' = [trips |-> [x \in DOMAIN feed.Routes |->
                            {t \in DOMAIN feed.Trips :
                               feed.Trips[t].Route = x}],
               chunks |-> getRouteChunks(order, feed),
               proced |-> {},
               visited |-> {}]
  /\ pc' = "loop"
  /\ UNCHANGED <<feed, feed0>>

\* one iteration of the loop over feed.Routes; the chunks keep the routes
\* deleted by earlier iterations, getEquivalentRoutes skips them
RDRVisit ==
  /\ pc = "loop"
  /\ \E r \in (DOMAIN feed.Routes) \ loc.visited :
       LET eqRoutes == getEquivalentRoutes(
                         r, feed, loc.chunks[routeHash(feed.Routes[r])])
       IN IF r \notin loc.proced /\ Len(eqRoutes) > 0
          THEN /\ feed' = combineRoutes(feed, Append(eqRoutes, r), loc.trips)
               /\ loc' = [loc EXCEPT
                            !.visited = @ \cup {r},
                            !.proced = @ \cup {r} \cup Range(eqRoutes)]
          ELSE /\ feed' = feed
               /\ loc' = [loc EXCEPT !.visited = @ \cup {r}]
  /\ UNCHANGED <<feed0, pc>>

\* the end of the loop and feed.CleanTransfers()
RDRReturn ==
  /\ pc = "loop"
  /\ (DOMAIN feed.Routes) \ loc.visited = {}
  /\ feed' = CleanRouteTransfers(feed)
  /\ pc' = "done"
  /\ UNCHANGED <<feed0, loc>>

RDRNext == RDRRun \/ RDRVisit \/ RDRReturn

SpecRDR == RDRInit /\ [][RDRNext]_vars

\* the number of rules of the list that belong to route r and have the
\* key of the rule k
RuleCount(rules, r, k) ==
  Cardinality({i \in DOMAIN rules :
                 rules[i].Route = r /\ ruleMatches(rules[i], k)})

\* C8: when the route duplicate remover has run, the route of every trip
\* has, in the input feed, the attributes of the route the trip had in the
\* input feed (agency, names, description, type, colours, URL, continuous
\* pickup and drop-off, additional fields), and in every fare attribute of
\* the input feed the two routes have the same multiset of fare rules
C8_MergesOnlyEqualRoutes ==
  pc = "done" =>
    \A t \in DOMAIN feed0.Trips :
      LET old == feed0.Trips[t].Route
          new == feed.Trips[t].Route
      IN /\ new \in DOMAIN feed.Routes
         /\ \A fld \in (DOMAIN RDRBase) \ {"Attributions"} :
              feed0.Routes[old][fld] = feed0.Routes[new][fld]
         /\ feed0.RoutesAddFlds[old] = feed0.RoutesAddFlds[new]
         /\ \A fa \in DOMAIN feed0.FareAttributes :
              \A k \in RDRRules :
                RuleCount(feed0.FareAttributes[fa].Rules, old, k)
                  = RuleCount(feed0.FareAttributes[fa].Rules, new, k)

\* two routes that both have fare rules have been merged
C8_Witness ==
  /\ pc = "done"
  /\ \E t \in DOMAIN feed.Trips :
       /\ feed.Trips[t].Route # feed0.Trips[t].Route
       /\ \E fa \in DOMAIN feed0.FareAttributes :
            \E i \in DOMAIN feed0.FareAttributes[fa].Rules :
              feed0.FareAttributes[fa].Rules[i].Route = feed0.Trips[t].Route

\* ---------------------------------------------------------------------
\* OrphanRemover
\* ---------------------------------------------------------------------
\* Entities reference each other by pointer; the model uses the ids and
\* None for nil.  A trip is [StopTimes, Frequencies, Route, Service, Shape],
\* StopTimes the sequence of its stop times [Stop, Pickup_type,
\* Drop_off_type] (type 1: no pickup, no drop-off) and Frequencies
\* the number of its frequency rows.

None == "nil"

removeTripOrphans(f) ==
  [f EXCEPT !.Trips = [t \in {x \in DOMAIN @ :
                                ~(Len(@[x].StopTimes) = 0
                                    /\ @[x].Frequencies = 0)} |-> @[t]]]

\* the stops of the stop times of the trips of the feed
stopTimeStops(f) ==
  UNION {{st.Stop : st \in Range(f.Trips[t].StopTimes)} :
           t \in DOMAIN f.Trips}

removeTransferOrphans(f) ==
  [f EXCEPT !.Transfers =
     SelectSeq(@, LAMBDA t : /\ t.From_stop \in stopTimeStops(f)
                             /\ t.To_stop \in stopTimeStops(f))]

removeStopOrphans(f) ==
  LET referenced ==
        stopTimeStops(f)
          \cup UNION {{f.Transfers[i].From_stop, f.Transfers[i].To_stop} :
                        i \in DOMAIN f.Transfers}
          \cup {f.Stops[x].Parent_station : x \in DOMAIN f.Stops}
          \cup UNION {{pw.From_stop, pw.To_stop} : pw \in f.Pathways}
  IN [f EXCEPT !.Stops = [x \in (DOMAIN @) \cap (referenced \ {None}) |->
                            @[x]]]

removeShapeOrphans(f) ==
  LET referenced == {f.Trips[t].Shape : t \in DOMAIN f.Trips} \ {None}
  IN [f EXCEPT !.Shapes = @ \cap referenced]

removeServiceOrphans(f) ==
  LET referenced == {f.Trips[t].Service : t \in DOMAIN f.Trips}
  IN [f EXCEPT !.Services = @ \cap referenced]

removeRouteOrphans(f) ==
  LET referenced ==
        {f.Trips[t].Route : t \in DOMAIN f.Trips}
          \cup (UNION {f.FareAttributes[fa].Rules :
                         fa \in DOMAIN f.FareAttributes} \ {None})
  IN [f EXCEPT !.Routes = [r \in (DOMAIN @) \cap referenced |-> @[r]]]

removeAgencyOrphans(f) ==
  LET referenced ==
        ({f.Routes[r].Agency : r \in DOMAIN f.Routes}
           \cup {f.FareAttributes[fa].Agency :
                   fa \in DOMAIN f.FareAttributes}) \ {None}
  IN [f EXCEPT !.Agencies = @ \cap referenced]

\* stops a (a station), b and c with their parents: b may be a platform or
\* an entrance of a, c a platform of a or a boarding area of b
ORStops ==
  {[x \in {"a", "b", "c"} |->
      IF x = "a" THEN [Parent_station |-> None, Location_type |-> 1]
      ELSE IF x = "b" THEN [Parent_station |-> parB, Location_type |-> typB]
      ELSE [Parent_station |-> parC,
            Location_type |-> IF parC = "b" THEN 4 ELSE 0]] :
     parB \in {None, "a"}, typB \in {0, 2}, parC \in {None, "a", "b"}}

\* the stop times at the stops of the sequence, all with the pickup and
\* drop-off type pd
ORStopTimes(stops, pd) ==
  [i \in 1 .. Len(stops) |->
     [Stop |-> stops[i], Pickup_type |-> pd, Drop_off_type |-> pd]]

ORInit ==
  /\ \E stops \in ORStops,
        st1 \in {ORStopTimes(sq, pd) :
                   sq \in {<<>>, <<"c", "c">>, <<"b", "c">>}, pd \in {0, 1}},
        fr1 \in {0, 1},
        sh1 \in {None, "sh1"},
        st2 \in {<<>>, ORStopTimes(<<"b">>, 0)},
        tr \in {<<>>, <<[From_stop |-> "b", To_stop |-> "c"]>>,
                <<[From_stop |-> "a", To_stop |-> "a"]>>},
        pw \in {{}, {[From_stop |-> "b", To_stop |-> "c"]}},
        fag \in {None, "ag3"},
        frl \in {{}, {"r3"}, {None}} :
       feed = [Stops |-> stops,
               Trips |-> [t \in {"t1", "t2"} |->
                            IF t = "t1"
                            THEN [StopTimes |-> st1, Frequencies |-> fr1,
                                  Route |-> "r1", Service |-> "sv1",
                                  Shape |-> sh1]
                            ELSE [StopTimes |-> st2, Frequencies |-> 0,
                                  Route |-> "r2", Service |-> "sv2",
                                  Shape |-> "sh2"]],
               Transfers |-> tr,
               Pathways |-> pw,
               Shapes |-> {"sh1", "sh2"},
               Services |-> {"sv1", "sv2"},
               Routes |-> [r \in {"r1", "r2", "r3"} |->
                             [Agency |-> IF r = "r1" THEN "ag1"
                                         ELSE IF r = "r2" THEN "ag2"
                                         ELSE "ag3"]],
               Agencies |-> {"ag1", "ag2", "ag3"},
               FareAttributes |-> [fa \in {"f1"} |->
                                     [Agency |-> fag, Rules |-> frl]]]
  /\ feed0 = feed
  /\ pc = "removeTripOrphans"
  /\ loc = <<>>

\* the calls of Run, in their order; pc names the call that is next
ORTrips ==
  /\ pc = "removeTripOrphans"
  /\ feed' = removeTripOrphans(feed)
  /\ pc' = "removeTransferOrphans"
  /\ UNCHANGED <<feed0, loc>>

ORTransfers ==
  /\ pc = "removeTransferOrphans"
  /\ feed' = removeTransferOrphans(feed)
  /\ pc' = "removeStopOrphans"
  /\ UNCHANGED <<feed0, loc>>

ORStops1 ==
  /\ pc = "removeStopOrphans"
  /\ feed' = removeStopOrphans(feed)
  /\ pc' = "removeStopOrphans2"
  /\ UNCHANGED <<feed0, loc>>

ORStops2 ==
  /\ pc = "removeStopOrphans2"
  /\ feed' = removeStopOrphans(feed)
  /\ pc' = "removeShapeOrphans"
  /\ UNCHANGED <<feed0, loc>>

ORShapes ==
  /\ pc = "removeShapeOrphans"
  /\ feed' = removeShapeOrphans(feed)
  /\ pc' = "removeServiceOrphans"
  /\ UNCHANGED <<feed0, loc>>

ORServices ==
  /\ pc = "removeServiceOrphans"
  /\ feed' = removeServiceOrphans(feed)
  /\ pc' = "removeRouteOrphans"
  /\ UNCHANGED <<feed0, loc>>

ORRoutes ==
  /\ pc = "removeRouteOrphans"
  /\ feed' = removeRouteOrphans(feed)
  /\ pc' = "removeAgencyOrphans"
  /\ UNCHANGED <<feed0, loc>>

ORAgencies ==
  /\ pc = "removeAgencyOrphans"
  /\ feed' = removeAgencyOrphans(feed)
  /\ pc' = "done"
  /\ UNCHANGED <<feed0, loc>>

ORNext ==
  \/ ORTrips
  \/ ORTransfers
  \/ ORStops1
  \/ ORStops2
  \/ ORShapes
  \/ ORServices
  \/ ORRoutes
  \/ ORAgencies

SpecOR == ORInit /\ [][ORNext]_vars

\* the stops some entity of the feed refers to
ReferencedStops(f) ==
  stopTimeStops(f)
    \cup UNION {{f.Transfers[i].From_stop, f.Transfers[i].To_stop} :
                  i \in DOMAIN f.Transfers}
    \cup UNION {{pw.From_stop, pw.To_stop} : pw \in f.Pathways}
    \cup {f.Stops[x].Parent_station : x \in DOMAIN f.Stops}

\* C10: when the orphan sweep has run, every stop of the feed that is not
\* an entrance is referenced by a stop time, a transfer, a pathway or as
\* the parent of a stop of the feed, every shape, service and route by a
\* trip (a route also by a fare rule), and every agency by a route or a
\* fare attribute of the feed
C10_NoOrphansLeft ==
  pc = "done" =>
    /\ \A x \in DOMAIN feed.Stops :
         feed.Stops[x].Location_type # 2 => x \in ReferencedStops(feed)
    /\ \A x \in feed.Shapes : \E t \in DOMAIN feed.Trips :
         feed.Trips[t].Shape = x
    /\ \A x \in feed.Services : \E t \in DOMAIN feed.Trips :
         feed.Trips[t].Service = x
    /\ \A x \in DOMAIN feed.Routes :
         \/ \E t \in DOMAIN feed.Trips : feed.Trips[t].Route = x
         \/ \E fa \in DOMAIN feed.FareAttributes :
              x \in feed.FareAttributes[fa].Rules
    /\ \A x \in feed.Agencies :
         \/ \E r \in DOMAIN feed.Routes : feed.Routes[r].Agency = x
         \/ \E fa \in DOMAIN feed.FareAttributes :
              feed.FareAttributes[fa].Agency = x

\* the feed after the calls of OrphanRemover.Run on the feed f
orphanRemoverRun(f) ==
  removeAgencyOrphans(removeRouteOrphans(removeServiceOrphans(
    removeShapeOrphans(removeStopOrphans(removeStopOrphans(
      removeTransferOrphans(removeTripOrphans(f))))))))

\* C13, for the orphan remover: a second run on the feed the first run
\* left removes nothing
C13_SecondRunChangesNothing ==
  pc = "done" => orphanRemoverRun(feed) = feed

\* ---------------------------------------------------------------------
\* IDMinimizer
\* ---------------------------------------------------------------------
\* A table is a Go map from ids to pointers.  feed.Trips and feed.Stops
\* map the keys to the names of the objects, feed.TripId and feed.StopId
\* give the Id field of every object, and feed.TripsAddFlds and
\* feed.StopsAddFlds are one additional column each, a map from ids to
\* values.  The trips have no attributions.  The other seven tables are
\* rewritten by goroutines of the same shape; the model keeps their number.

\* m[k] of a Go map of strings: the empty string for a missing key
mapGet(m, k) == IF k \in DOMAIN m THEN m[k] ELSE ""

\* m[k] = v
mapSet(m, k, v) == [x \in (DOMAIN m) \cup {k} |-> IF x = k THEN v ELSE m[x]]

\* delete(m, k)
mapDelete(m, k) == [x \in (DOMAIN m) \ {k} |-> m[x]]

\* the two statements that rewrite an additional column for one entity
addFldsRewrite(col, oldId, newId) ==
  mapDelete(mapSet(col, newId, mapGet(col, oldId)), oldId)

\* minimizer.Prefix + strconv.FormatInt(idCount, minimizer.Base), for the
\* counts below the base
newIdOf(prefix, idCount) == prefix \o ToString(idCount)

IDMIds == {"1", "2", "n1", "x"}

IDMValues == {"", "u", "v"}

IDMInit ==
  /\ \E prefix \in {"", "n"},
        id1 \in IDMIds, id2 \in IDMIds, sid \in {"1", "x"},
        v1 \in IDMValues, v2 \in IDMValues,
        keepTrips \in BOOLEAN, keepStations \in BOOLEAN,
        keepAttributions \in BOOLEAN, others \in {0, 1} :
       /\ id1 # id2
       /\ feed = [Trips |-> [k \in {id1, id2} |->
                               IF k = id1 THEN "trip1" ELSE "trip2"],
                  TripId |-> [o \in {"trip1", "trip2"} |->
                                IF o = "trip1" THEN id1 ELSE id2],
                  TripsAddFlds |->
                    [k \in {x \in {id1, id2} :
                              (IF x = id1 THEN v1 ELSE v2) # ""} |->
                       IF k = id1 THEN v1 ELSE v2],
                  Stops |-> [k \in {sid} |-> "stop1"],
                  StopId |-> [o \in {"stop1"} |-> sid],
                  StopsAddFlds |-> [k \in {sid} |-> "w"]]
       /\ loc = [Prefix |-> prefix,
                 KeepTrips |-> keepTrips,
                 KeepStations |-> keepStations,
                 KeepAttributions |-> keepAttributions,
                 others |-> others]
  /\ feed0 = feed
  /\ pc = "start"

\* the goroutines Run starts: those of the trips, of the stops and of the
\* attributions, and one for each other table whose ids are not kept
IDMWorkers(l) ==
  (IF l.KeepTrips THEN {} ELSE {"trips"})
    \cup (IF l.KeepStations THEN {} ELSE {"stops"})
    \cup (IF l.KeepAttributions THEN {} ELSE {"attributions"})
    \cup {"other" \o ToString(n) : n \in 1 .. l.others}

\* Run up to the loop that waits; j counts down from 9 for every Keep
\* flag, 7 - others of them being flags of the other tables
IDMRun ==
  /\ pc = "start"
  /\ LET keeps == (IF loc.KeepTrips THEN 1 ELSE 0)
                    + (IF loc.KeepStations THEN 1 ELSE 0)
                    + (IF loc.KeepAttributions THEN 1 ELSE 0)
                    + (7 - loc.others)
         j == 9 - keeps
     IN IF j < 0
        THEN \* make(chan empty, j) panics
             /\ pc' = "panic"
             /\ loc' = loc
        ELSE /\ pc' = "wait"
             /\ loc' = [Prefix |-> loc.Prefix,
                        j |-> j,
                        sem |-> 0,
                        i |-> 0,
                        status |-> [w \in IDMWorkers(loc) |-> "run"],
                        visited |-> [w \in {"trips", "stops"} |-> {}],
                        idCount |-> [w \in {"trips", "stops"} |-> 1],
                        newMap |-> [w \in {"trips", "stops"} |-> <<>>],
                        ranged |-> {}]
  /\ UNCHANGED <<feed, feed0>>

IDMRunning(w) ==
  /\ pc \in {"wait", "done"}
  /\ w \in DOMAIN loc.status
  /\ loc.status[w] = "run"

\* one iteration of the loop of minimizeTripIds
IDMTrip ==
  /\ IDMRunning("trips")
  /\ \E k \in (DOMAIN feed.Trips) \ loc.visited["trips"] :
       LET t == feed.Trips[k]
           oldId == feed.TripId[t]
           newId == newIdOf(loc.Prefix, loc.idCount["trips"])
       IN /\ feed' = [feed EXCEPT
                        !.TripId[t] = newId,
                        !.TripsAddFlds = addFldsRewrite(@, oldId, newId)]
          /\ loc' = [loc EXCEPT
                       !.visited["trips"] = @ \cup {k},
                       !.idCount["trips"] = @ + 1,
                       !.newMap["trips"] = mapSet(@, newId, t)]
  /\ UNCHANGED <<feed0, pc>>

\* feed.Trips = newMap, the goroutine is at its send
IDMTripsEnd ==
  /\ IDMRunning("trips")
  /\ (DOMAIN feed.Trips) \ loc.visited["trips"] = {}
  /\ feed' = [feed EXCEPT !.Trips = loc.newMap["trips"]]
  /\ loc' = [loc EXCEPT !.status["trips"] = "send"]
  /\ UNCHANGED <<feed0, pc>>

\* one iteration of the loop of minimizeStopIds
IDMStop ==
  /\ IDMRunning("stops")
  /\ \E k \in (DOMAIN feed.Stops) \ loc.visited["stops"] :
       LET st == feed.Stops[k]
           oldId == feed.StopId[st]
           newId == newIdOf(loc.Prefix, loc.idCount["stops"])
       IN /\ feed' = [feed EXCEPT
                        !.StopId[st] = newId,
                        !.StopsAddFlds = addFldsRewrite(@, oldId, newId)]
          /\ loc' = [loc EXCEPT
                       !.visited["stops"] = @ \cup {k},
                       !.idCount["stops"] = @ + 1,
                       !.newMap["stops"] = mapSet(@, newId, st)]
  /\ UNCHANGED <<feed0, pc>>

\* feed.Stops = newMap, the goroutine is at its send
IDMStopsEnd ==
  /\ IDMRunning("stops")
  /\ (DOMAIN feed.Stops) \ loc.visited["stops"] = {}
  /\ feed' = [feed EXCEPT !.Stops = loc.newMap["stops"]]
  /\ loc' = [loc EXCEPT !.status["stops"] = "send"]
  /\ UNCHANGED <<feed0, pc>>

\* minimizeAttributionIds up to `range feed.Trips`: the feed has no
\* attributions of its own, of agencies or of routes; the range is over the
\* map that feed.Trips holds when the statement is reached
IDMAttrRange ==
  /\ IDMRunning("attributions")
  /\ loc' = [loc EXCEPT !.status["attributions"] = "range",
                        !.ranged = DOMAIN feed.Trips]
  /\ UNCHANGED <<feed, feed0, pc>>

\* the loop over the trips, none of which has attributions; the goroutine
\* is at its send
IDMAttrTrips ==
  /\ pc \in {"wait", "done"}
  /\ "attributions" \in DOMAIN loc.status
  /\ loc.status["attributions"] = "range"
  /\ loc' = [loc EXCEPT !.status["attributions"] = "send"]
  /\ UNCHANGED <<feed, feed0, pc>>

\* the goroutine of another table has rewritten its table
IDMOther(w) ==
  /\ IDMRunning(w)
  /\ w \notin {"trips", "stops", "attributions"}
  /\ loc' = [loc EXCEPT !.status[w] = "send"]
  /\ UNCHANGED <<feed, feed0, pc>>

\* sem <- empty{}, on a channel with a buffer of j
IDMSend(w) ==
  /\ pc \in {"wait", "done"}
  /\ w \in DOMAIN loc.status
  /\ loc.status[w] = "send"
  /\ loc.sem < loc.j
  /\ loc' = [loc EXCEPT !.status[w] = "end", !.sem = @ + 1]
  /\ UNCHANGED <<feed, feed0, pc>>

\* <-sem
IDMReceive ==
  /\ pc = "wait"
  /\ loc.i < loc.j
  /\ loc.sem > 0
  /\ loc' = [loc EXCEPT !.sem = @ - 1, !.i = @ + 1]
  /\ UNCHANGED <<feed, feed0, pc>>

IDMReturn ==
  /\ pc = "wait"
  /\ loc.i >= loc.j
  /\ pc' = "done"
  /\ UNCHANGED <<feed, feed0, loc>>

IDMNext ==
  \/ IDMRun
  \/ IDMTrip
  \/ IDMTripsEnd
  \/ IDMStop
  \/ IDMStopsEnd
  \/ IDMAttrRange
  \/ IDMAttrTrips
  \/ \E w \in {"other1"} : IDMOther(w)
  \/ \E w \in {"trips", "stops", "attributions", "other1"} : IDMSend(w)
  \/ IDMReceive
  \/ IDMReturn

SpecIDM == IDMInit /\ [][IDMNext]_vars

\* Run has returned and no goroutine is rewriting a table any more
IDMFinished ==
  /\ pc = "done"
  /\ \A w \in DOMAIN loc.status : loc.status[w] \notin {"run", "range"}

\* C7: when the ID minimizer has renumbered the trips, the additional
\* column holds for every trip, under its new id, the value it held under
\* the trip's old id, and it has no entry under an id that is not the new
\* id of a trip
C7_AddFldsInLockstep ==
  (IDMFinished /\ "trips" \in DOMAIN loc.status) =>
    /\ \A k \in DOMAIN feed0.Trips :
         mapGet(feed.TripsAddFlds, feed.TripId[feed0.Trips[k]])
           = mapGet(feed0.TripsAddFlds, k)
    /\ \A k \in DOMAIN feed.TripsAddFlds :
         \E t \in DOMAIN feed.TripId : feed.TripId[t] = k

\* C6: at every moment no two trips carry the same id, so the id the ID
\* minimizer assigns to a trip differs from the id of every other trip of
\* the table
C6_IdsDistinct ==
  \A t1 \in DOMAIN feed.TripId : \A t2 \in DOMAIN feed.TripId :
    t1 # t2 => feed.TripId[t1] # feed.TripId[t2]

\* C12: Run waits for as many completions as it started goroutines, and
\* when it returns every goroutine it started has signalled completion
C12_Barrier ==
  (pc \in {"wait", "done"} /\ "status" \in DOMAIN loc) =>
    /\ loc.j = Cardinality(DOMAIN loc.status)
    /\ pc = "done" => \A w \in DOMAIN loc.status : loc.status[w] = "end"

\* the tables and additional columns of the feed that the goroutine w
\* reads or writes
IDMTablesOf(w) ==
  IF w = "trips" THEN {"Trips", "TripsAddFlds"}
  ELSE IF w = "stops" THEN {"Stops", "StopsAddFlds"}
  ELSE IF w = "attributions" THEN {"Trips"}
  ELSE {}

\* C20: a step that inserts into, deletes from or replaces a table or an
\* additional column of the feed is taken while no other goroutine that
\* reads or writes this table or column is running
C20_NoSharedRekey ==
  [][\A tbl \in {"Trips", "TripsAddFlds", "Stops", "StopsAddFlds"} :
       feed'[tbl] # feed[tbl] =>
         Cardinality({w \in DOMAIN loc.status :
                        /\ loc.status[w] \in {"run", "range"}
                        /\ tbl \in IDMTablesOf(w)}) <= 1]_vars

\* ---------------------------------------------------------------------
\* StopDuplicateRemover
\* ---------------------------------------------------------------------
\* feed.Stops maps a stop id to [Parent_station, Location_type, Name, Pos];
\* a stop pointer is the stop's id, None the nil pointer.  Name stands for
\* the attributes stopEquals compares by equality (code, name, description,
\* zone, url, timezone, wheelchair boarding, level, platform code) and Pos
\* is the stop's position in metres along a line.  feed.Trips[t].StopTimes
\* is the sequence of the stops the trip calls at, feed.Transfers a map from
\* keys [From_stop, To_stop] to values and feed.Pathways a map from pathway
\* ids to [From_stop, To_stop].  The feeds have no levels and no additional
\* stop columns.

\* the thresholds the command line tool constructs the processor with
DistThresholdStop == 5

DistThresholdStation == 50

\* the stop ids of the feeds, in the order of Go's string comparison
STStopIds == <<"a:1", "b1", "c", "p1", "p2">>

stopIndex(id) == CHOOSE i \in 1 .. Len(STStopIds) : STStopIds[i] = id

\* s.Id < ref.Id
strLess(a, b) == stopIndex(a) < stopIndex(b)

\* TLA+ strings have no characters to iterate over: the count is tabulated
\* for the ids of STStopIds
numColons(str) == IF str = "a:1" THEN 1 ELSE 0

\* a stand-in for the address a stop pointer holds
stopPointer(id) == IF id = None THEN 0 ELSE stopIndex(id)

\* a stand-in for the FNV hash of the hashed attributes
stopHash(s) ==
  (stopPointer(s.Parent_station) + s.Location_type + Len(s.Name)) % HashValues

distSApprox(a, b) == IF a.Pos >= b.Pos THEN a.Pos - b.Pos ELSE b.Pos - a.Pos

\* the strict comparison (Fuzzy = false); addFldsEq is true as there are no
\* additional columns
stopEquals(a, b) ==
  /\ a.Name = b.Name
  /\ a.Location_type = b.Location_type
  /\ a.Parent_station = b.Parent_station
  /\ \/ distSApprox(a, b) <= DistThresholdStop
     \/ a.Location_type = 1 /\ distSApprox(a, b) <= DistThresholdStation

\* order is the order in which the range over feed.Stops yields the stops
getStopChunks(order, f) ==
  [h \in {stopHash(f.Stops[id]) : id \in DOMAIN f.Stops} |->
     LET stops == SelectIn(order, {id \in DOMAIN f.Stops :
                                     stopHash(f.Stops[id]) = h})
         numchunks == MaxParallelism
         chunksize == GoDiv(Len(stops) + numchunks - 1, numchunks)
     IN smChunks(stops, [c \in 1 .. numchunks |-> <<>>], 1, chunksize)]

\* chunks is chunks[hash], nil when no stop had that hash; the workers'
\* results are concatenated in chunk order
getEquivalentStops(stop, f, chunks) ==
  SelectSeq(Concat(chunks),
            LAMBDA s : /\ s # stop
                       /\ s \in DOMAIN f.Stops
                       /\ stopEquals(f.Stops[s], f.Stops[stop]))

\* the condition under which s replaces ref as the reference stop
betterRef(s, ref) ==
  \/ numColons(s) > numColons(ref)
  \/ numColons(s) = numColons(ref) /\ Len(ref) > Len(s)
  \/ numColons(s) = numColons(ref) /\ Len(ref) = Len(s) /\ strLess(s, ref)

RECURSIVE pickRef(_, _)
pickRef(stops, ref) ==
  IF stops = <<>> THEN ref
  ELSE pickRef(Tail(stops),
               IF betterRef(Head(stops), ref) THEN Head(stops) ELSE ref)

\* the zero value a Go map returns for a key it does not hold
ZeroTransfer == [Min_transfer_time |-> 0]

transferGet(m, k) == IF k \in DOMAIN m THEN m[k] ELSE ZeroTransfer

\* The four loops of combineStops for one stop s of the group.  st holds
\* the feed and the four indexes Run built at the start of the pass.
RECURSIVE csStopTimes(_, _, _, _)
csStopTimes(st, s, ref, i) ==
  IF i > Len(st.stoptimes[s]) THEN st
  ELSE LET e == st.stoptimes[s][i]
       IN IF st.feed.Trips[e.trip].StopTimes[e.idx] = s
          THEN csStopTimes(
                 [st EXCEPT !.feed.Trips[e.trip].StopTimes[e.idx] = ref,
                            !.stoptimes[ref] = Append(@, e)], s, ref, i + 1)
          ELSE csStopTimes(st, s, ref, i + 1)

\* a stop deleted from the stop table earlier in the pass is still an
\* object the index points to: st.dead holds those objects
RECURSIVE csParents(_, _, _, _)
csParents(st, s, ref, i) ==
  IF i > Len(st.pstops[s]) THEN st
  ELSE LET ps == st.pstops[s][i]
           live == ps \in DOMAIN st.feed.Stops
           parent == IF live THEN st.feed.Stops[ps].Parent_station
                     ELSE st.dead[ps].Parent_station
           set == IF live
                  THEN [st EXCEPT !.feed.Stops[ps].Parent_station = ref]
                  ELSE [st EXCEPT !.dead[ps].Parent_station = ref]
       IN IF parent = s
          THEN csParents([set EXCEPT !.pstops[ref] = Append(@, ps)],
                         s, ref, i + 1)
          ELSE csParents(st, s, ref, i + 1)

RECURSIVE csTransfers(_, _, _, _)
csTransfers(st, s, ref, i) ==
  IF i > Len(st.transfers[s]) THEN st
  ELSE LET tk == st.transfers[s][i]
           tk_new == [From_stop |-> IF tk.From_stop = s THEN ref
                                    ELSE tk.From_stop,
                      To_stop |-> IF tk.To_stop = s THEN ref ELSE tk.To_stop]
       IN IF tk_new \notin DOMAIN st.feed.Transfers
          THEN csTransfers(
                 [st EXCEPT !.feed.Transfers =
                               mapDelete(mapSet(@, tk_new, transferGet(@, tk)),
                                         tk),
                            !.transfers[ref] = Append(@, tk_new)],
                 s, ref, i + 1)
          ELSE csTransfers(st, s, ref, i + 1)

RECURSIVE csPathways(_, _, _, _)
csPathways(st, s, ref, i) ==
  IF i > Len(st.pathways[s]) THEN st
  ELSE LET p == st.pathways[s][i]
           from == st.feed.Pathways[p].From_stop
           to == st.feed.Pathways[p].To_stop
       IN IF from = s \/ to = s
          THEN csPathways(
                 [st EXCEPT !.feed.Pathways[p] =
                               [From_stop |-> IF from = s THEN ref ELSE from,
                                To_stop |-> IF to = s THEN ref ELSE to],
                            !.pathways[ref] = Append(@, p)], s, ref, i + 1)
          ELSE csPathways(st, s, ref, i + 1)

\* feed.DeleteStop(id) removes the stop from the stop table
DeleteStop(f, id) == [f EXCEPT !.Stops = mapDelete(@, id)]

\* the call of DeleteStop in combineStops: the stop object lives on
deleteStop(st, s) ==
  [st EXCEPT !.feed = DeleteStop(@, s),
             !.dead = mapSet(@, s, st.feed.Stops[s])]

RECURSIVE combineStopsLoop(_, _, _)
combineStopsLoop(st, stops, ref) ==
  IF stops = <<>> THEN st
  ELSE LET s == Head(stops)
           a == csStopTimes(st, s, ref, 1)
           b == csParents(a, s, ref, 1)
           c == csTransfers(b, s, ref, 1)
           d == csPathways(c, s, ref, 1)
       IN IF s = ref THEN combineStopsLoop(st, Tail(stops), ref)
          ELSE combineStopsLoop(deleteStop(d, s), Tail(stops), ref)

combineStops(st, stops) == combineStopsLoop(st, stops, pickRef(stops, stops[1]))

\* some enumeration of a set; used where the order of an index slice has
\* no effect on what combineStops does with its elements
seqOf(S) == CHOOSE p \in Perms(S) : TRUE

STIds == Range(STStopIds)

\* the four indexes Run builds at the start of a pass; tord is the order
\* in which the range over feed.Transfers yields the keys
stoptimesIndex(f) ==
  [s \in STIds |->
     seqOf({e \in UNION {[trip : {t}, idx : 1 .. Len(f.Trips[t].StopTimes)] :
                           t \in DOMAIN f.Trips} :
              f.Trips[e.trip].StopTimes[e.idx] = s})]

parentIndex(f) ==
  [s \in STIds |->
     seqOf({c \in DOMAIN f.Stops : f.Stops[c].Parent_station = s})]

transferIndex(tord) ==
  [s \in STIds |->
     SelectSeq(tord, LAMBDA tk : tk.From_stop = s \/ tk.To_stop = s)]

pathwayIndex(f) ==
  [s \in STIds |->
     seqOf({p \in DOMAIN f.Pathways :
              f.Pathways[p].From_stop = s \/ f.Pathways[p].To_stop = s})]

STStop(parent, type, name, pos) ==
  [Parent_station |-> parent, Location_type |-> type, Name |-> name,
   Pos |-> pos]

STKey(from, to) == [From_stop |-> from, To_stop |-> to]

\* the transfers the input feeds draw from, each with its own value
STTransfers ==
  [k \in {STKey("b1", "c"), STKey("a:1", "c"), STKey("b1", "a:1")} |->
     [Min_transfer_time |-> IF k = STKey("b1", "c") THEN 60
                            ELSE IF k = STKey("a:1", "c") THEN 120 ELSE 180]]

\* Two stations p1 and p2, 30 m or 80 m apart, and three platforms a:1, b1
\* and c under them; one trip calling at b1 and c, one pathway from b1 to
\* c, and at most two transfers between the platforms.
STInit ==
  /\ \E posP \in {30, 80}, parB \in {"p1", "p2"}, parC \in {"p1", "p2"},
        posC \in {4, 9}, keys \in SUBSET DOMAIN STTransfers :
       /\ Cardinality(keys) <= 2
       /\ feed = [Stops |->
                    [id \in STIds |->
                       CASE id = "p1" -> STStop(None, 1, "P", 0)
                         [] id = "p2" -> STStop(None, 1, "P", posP)
                         [] id = "a:1" -> STStop("p1", 0, "N", 0)
                         [] id = "b1" -> STStop(parB, 0, "N", 3)
                         [] id = "c" -> STStop(parC, 0, "N", posC)],
                  Trips |-> [t \in {"t1"} |-> [StopTimes |-> <<"b1", "c">>]],
                  Transfers |-> [k \in keys |-> STTransfers[k]],
                  Pathways |-> [p \in {"pw1"} |-> STKey("b1", "c")]]
  /\ feed0 = feed
  /\ pc = "Run"
  /\ loc = [i |-> 0,
            stoptimes |-> [s \in STIds |-> <<>>],
            pstops |-> [s \in STIds |-> <<>>],
            transfers |-> [s \in STIds |-> <<>>],
            pathways |-> [s \in STIds |-> <<>>],
            chunks |-> [h \in {} |-> <<>>],
            proced |-> {}, visited |-> {},
            dead |-> [s \in {} |-> None],
            merged |-> [s \in {} |-> None]]

\* Run up to the pass loop: the feed has no levels to merge
STRun ==
  /\ pc = "Run"
  /\ pc' = "pass"
  /\ UNCHANGED <<feed, feed0, loc>>

\* the head of one of the three passes: chunks and the indexes are rebuilt;
\* the stop objects deleted in the pass before are out of their reach
STPass ==
  /\ pc = "pass"
  /\ loc.i < 3
  /\ \E sord \in Perms(DOMAIN feed.Stops), tord \in Perms(DOMAIN feed.Transfers) :
       loc' = [loc EXCEPT !.stoptimes = stoptimesIndex(feed),
                          !.pstops = parentIndex(feed),
                          !.transfers = transferIndex(tord),
                          !.pathways = pathwayIndex(feed),
                          !.chunks = getStopChunks(sord, feed),
                          !.proced = {}, !.visited = {},
                          !.dead = [s \in {} |-> None]]
  /\ pc' = "stops"
  /\ UNCHANGED <<feed, feed0>>

\* one iteration of the range over feed.Stops: a stop deleted before the
\* range reaches it is not visited
STVisit(s) ==
  /\ pc = "stops"
  /\ s \in (DOMAIN feed.Stops) \ loc.visited
  /\ LET hash == stopHash(feed.Stops[s])
         chunks == IF hash \in DOMAIN loc.chunks THEN loc.chunks[hash]
                   ELSE <<>>
         eqStops == getEquivalentStops(s, feed, chunks)
         stops == Append(eqStops, s)
         ref == pickRef(stops, stops[1])
         gone == Range(stops) \ {ref}
         st == combineStops([feed |-> feed, stoptimes |-> loc.stoptimes,
                             pstops |-> loc.pstops,
                             transfers |-> loc.transfers,
                             pathways |-> loc.pathways,
                             dead |-> loc.dead], stops)
     IN IF s \notin loc.proced /\ Len(eqStops) > 0
        THEN /\ feed' = st.feed
             /\ loc' = [loc EXCEPT
                          !.stoptimes = st.stoptimes, !.pstops = st.pstops,
                          !.transfers = st.transfers,
                          !.pathways = st.pathways, !.dead = st.dead,
                          !.proced = @ \cup Range(stops),
                          !.visited = @ \cup {s},
                          !.merged = [x \in (DOMAIN @) \cup gone |->
                                        IF x \in gone THEN ref ELSE @[x]]]
        ELSE /\ feed' = feed
             /\ loc' = [loc EXCEPT !.visited = @ \cup {s}]
  /\ UNCHANGED <<feed0, pc>>

\* the range over feed.Stops is exhausted: i++
STPassEnd ==
  /\ pc = "stops"
  /\ (DOMAIN feed.Stops) \ loc.visited = {}
  /\ loc' = [loc EXCEPT !.i = @ + 1]
  /\ pc' = "pass"
  /\ UNCHANGED <<feed, feed0>>

STReturn ==
  /\ pc = "pass"
  /\ loc.i = 3
  /\ pc' = "done"
  /\ UNCHANGED <<feed, feed0, loc>>

STNext ==
  \/ STRun
  \/ STPass
  \/ \E s \in STIds : STVisit(s)
  \/ STPassEnd
  \/ STReturn

SpecStopDR == STInit /\ [][STNext]_vars

\* the stop a merged-away stop was finally merged into
RECURSIVE finalRef(_)
finalRef(s) ==
  IF s \in DOMAIN loc.merged THEN finalRef(loc.merged[s]) ELSE s

STFinished == pc = "done" /\ feed0.Stops # feed.Stops

\* C9: after StopDuplicateRemover has run, every merged-away stop is
\* absent from the stop table; every stop time, parent pointer, transfer
\* endpoint and pathway endpoint that referenced a merged-away stop
\* references the reference stop of its group, and no transfer is keyed on
\* a merged-away stop.
C9_RetargetsCompletely ==
  STFinished =>
    /\ \A s \in DOMAIN loc.merged : s \notin DOMAIN feed.Stops
    /\ \A t \in DOMAIN feed0.Trips :
         \A n \in 1 .. Len(feed0.Trips[t].StopTimes) :
           feed.Trips[t].StopTimes[n] = finalRef(feed0.Trips[t].StopTimes[n])
    /\ \A s \in DOMAIN feed.Stops :
         feed.Stops[s].Parent_station
           = finalRef(feed0.Stops[s].Parent_station)
    /\ \A p \in DOMAIN feed0.Pathways :
         /\ feed.Pathways[p].From_stop = finalRef(feed0.Pathways[p].From_stop)
         /\ feed.Pathways[p].To_stop = finalRef(feed0.Pathways[p].To_stop)
    /\ \A k \in DOMAIN feed0.Transfers :
         STKey(finalRef(k.From_stop), finalRef(k.To_stop))
           \in DOMAIN feed.Transfers
    /\ \A k \in DOMAIN feed.Transfers :
         /\ k.From_stop \notin DOMAIN loc.merged
         /\ k.To_stop \notin DOMAIN loc.merged

\* C5: after StopDuplicateRemover has run, every stop time's stop, every
\* stop's parent station and every transfer and pathway endpoint is a stop
\* of the stop table.
C5_ReferenceClosure ==
  pc = "done" =>
    /\ \A t \in DOMAIN feed.Trips :
         \A n \in 1 .. Len(feed.Trips[t].StopTimes) :
           feed.Trips[t].StopTimes[n] \in DOMAIN feed.Stops
    /\ \A s \in DOMAIN feed.Stops :
         feed.Stops[s].Parent_station \in (DOMAIN feed.Stops) \cup {None}
    /\ \A k \in DOMAIN feed.Transfers :
         k.From_stop \in DOMAIN feed.Stops /\ k.To_stop \in DOMAIN feed.Stops
    /\ \A p \in DOMAIN feed.Pathways :
         /\ feed.Pathways[p].From_stop \in DOMAIN feed.Stops
         /\ feed.Pathways[p].To_stop \in DOMAIN feed.Stops

\* ---------------------------------------------------------------------
\* FrequencyMinimizer
\* ---------------------------------------------------------------------
\* A trip is [Route, Service, Headsign, StopTimes, Frequencies]; Headsign
\* stands for the trip attributes isTimeIndependentEqual compares by
\* equality.  A stop time is [Stop, Arrival_time, Departure_time] and a
\* frequency row [Start_time, End_time, Headway_secs, Exact_times]; a
\* gtfs.Time is held as the value SecondsSinceMidnight() returns for it.  A
\* trip without frequency rows has Frequencies = <<>>.  The feeds have no
\* additional columns.

\* the defaults of the --min-headway and --max-headway flags
MinHeadway == 1

MaxHeadway == 86400

\* gtfs.Time{Hour, Minute, Second} of s seconds, read back in seconds
getGtfsTimeFromSec(s) ==
  LET Hour == GoDiv(s, 3600)
      Minute == GoDiv(s - GoDiv(s, 3600) * 3600, 60)
      Second == s - GoDiv(s, 60) * 60
  IN Hour * 3600 + Minute * 60 + Second

\* the stop-time attributes other than stop and times are equal in the feeds
hasSameRelStopTimes(a, b) ==
  /\ Len(a.StopTimes) = Len(b.StopTimes)
  /\ \A i \in 1 .. Len(a.StopTimes) :
       /\ a.StopTimes[i].Stop = b.StopTimes[i].Stop
       /\ i # 1 =>
            /\ a.StopTimes[i].Arrival_time - a.StopTimes[i - 1].Arrival_time
                 = b.StopTimes[i].Arrival_time
                     - b.StopTimes[i - 1].Arrival_time
            /\ a.StopTimes[i].Departure_time
                   - a.StopTimes[i - 1].Departure_time
                 = b.StopTimes[i].Departure_time
                     - b.StopTimes[i - 1].Departure_time

isTimeIndependentEqual(a, b) ==
  /\ a.Route = b.Route
  /\ a.Service = b.Service
  /\ a.Headsign = b.Headsign
  /\ hasSameRelStopTimes(a, b)

\* the values of s in: for s := Start_time; s < End_time; s += Headway_secs
expandFrequency(f) ==
  {s \in f.Start_time .. (f.End_time - 1) :
     (s - f.Start_time) % f.Headway_secs = 0}

\* the nil *gtfs.Frequency; a row is pointed to as [trip, row, Exact_times]
NilFreq == [trip |-> None, row |-> 0, Exact_times |-> FALSE]

\* the wrappers getTimeIndependentEquivalentTrips collects for trip id;
\* trips maps the ids of tripsSl[Route][Service] to the trip objects
getTimeIndependentEquivalentTrips(id, trips) ==
  UNION {
    IF ~(t = id \/ isTimeIndependentEqual(trips[t], trips[id])) THEN {}
    ELSE IF Len(trips[t].Frequencies) = 0
    THEN {[Trip |-> t, t |-> trips[t].StopTimes[1].Arrival_time,
           sourceFreq |-> NilFreq]}
    ELSE UNION {
           {[Trip |-> t, t |-> getGtfsTimeFromSec(s),
             sourceFreq |-> [trip |-> t, row |-> r,
                             Exact_times |->
                               trips[t].Frequencies[r].Exact_times]] :
              s \in expandFrequency(trips[t].Frequencies[r])} :
           r \in 1 .. Len(trips[t].Frequencies)} :
    t \in DOMAIN trips}

\* the orders sort.Sort(eqs) can leave the wrappers in
sortedWrappers(W) ==
  {p \in Perms(W) : \A i \in 1 .. Len(p) - 1 : p[i].t <= p[i + 1].t}

getPossibleFreqs(tws) ==
  {fre \in {tws[p[2]].t - tws[p[1]].t :
              p \in {q \in (1 .. Len(tws)) \X (1 .. Len(tws)) : q[1] < q[2]}} :
     fre # 0 /\ fre <= MaxHeadway /\ fre >= MinHeadway}

freqEq(a, b) ==
  \/ b.sourceFreq = a.sourceFreq
  \/ b.sourceFreq = NilFreq /\ a.sourceFreq.Exact_times
  \/ a.sourceFreq = NilFreq /\ b.sourceFreq.Exact_times
  \/ /\ a.sourceFreq # NilFreq
     /\ b.sourceFreq # NilFreq
     /\ a.sourceFreq.Exact_times = b.sourceFreq.Exact_times

\* getCover: the loop over j that extends nextCand for one freq
RECURSIVE nextCand(_, _, _, _, _, _, _)
nextCand(eqs, marked, overlapping, i, freq, j, cand) ==
  IF j > Len(eqs) THEN cand
  ELSE IF j \in marked
  THEN IF overlapping
       THEN nextCand(eqs, marked, overlapping, i, freq, j + 1, cand)
       ELSE cand
  ELSE IF freqEq(eqs[i], eqs[j])
            /\ eqs[j].t = eqs[i].t + Len(cand.matches) * freq
  THEN nextCand(eqs, marked, overlapping, i, freq, j + 1,
                [matches |-> Append(cand.matches, j), headways |-> freq])
  ELSE IF ~overlapping THEN cand
  ELSE nextCand(eqs, marked, overlapping, i, freq, j + 1, cand)

\* getCover: the values curCand can have after the range over freqs, which
\* visits the headways in any order and keeps the first longest candidate
curCands(eqs, marked, overlapping, i) ==
  LET first == [matches |-> <<i>>, headways |-> 0]
      cs == {nextCand(eqs, marked, overlapping, i, freq, i + 1, first) :
               freq \in getPossibleFreqs(eqs)}
      longest == Max({Len(c.matches) : c \in cs} \cup {1})
  IN IF longest = 1 THEN {first}
     ELSE {c \in cs : Len(c.matches) = longest}

\* getCover: the loops over hasUnmarked and minSize; the set of the
\* progression lists the function can return
RECURSIVE getCoverLoop(_, _, _, _, _)
getCoverLoop(eqs, overlapping, marked, minSize, progressions) ==
  IF marked = 1 .. Len(eqs) THEN {progressions}
  ELSE IF minSize = 0
  THEN getCoverLoop(eqs, overlapping, marked, Len(eqs), progressions)
  ELSE LET i == Min((1 .. Len(eqs)) \ marked)
       IN UNION {
            IF Len(c.matches) >= minSize
            THEN getCoverLoop(eqs, overlapping, marked \cup Range(c.matches),
                              minSize - 1, Append(progressions, c))
            ELSE getCoverLoop(eqs, overlapping, marked, minSize - 1,
                              progressions) :
            c \in curCands(eqs, marked, overlapping, i)}

getCover(eqs, overlapping) ==
  getCoverLoop(eqs, overlapping, {}, Len(eqs), <<>>)

\* packCovers: the test of a progression c against an existing cover
packOverlap(t, cover, c) ==
  \E n \in 1 .. Len(cover) :
    ~(\/ t[cover[n].matches[1]].t > t[c.matches[Len(c.matches)]].t
      \/ t[cover[n].matches[Len(cover[n].matches)]].t < t[c.matches[1]].t)

RECURSIVE packCoversLoop(_, _, _, _)
packCoversLoop(progressions, t, ret, singleTrips) ==
  IF progressions = <<>>
  THEN IF Len(ret) = 1 /\ Len(ret[1]) = 0 THEN singleTrips
       ELSE ret \o singleTrips
  ELSE LET c == Head(progressions)
           free == {i \in 1 .. Len(ret) : ~packOverlap(t, ret[i], c)}
       IN IF Len(c.matches) = 1
          THEN packCoversLoop(Tail(progressions), t, ret,
                              Append(singleTrips, <<c>>))
          ELSE IF free # {}
          THEN packCoversLoop(Tail(progressions), t,
                              [ret EXCEPT ![Min(free)] = Append(@, c)],
                              singleTrips)
          ELSE packCoversLoop(Tail(progressions), t, Append(ret, <<c>>),
                              singleTrips)

\* a cover is held as the sequence of its progressions
packCovers(c, t) == packCoversLoop(c, t, <<<<>>>>, <<>>)

\* remeasureStopTimes: diff is the sum of the arrival differences up to
\* stop i, which is the arrival at stop i less the arrival at the first stop
remeasureStopTimes(StopTimes, time) ==
  [i \in 1 .. Len(StopTimes) |->
     LET diff == StopTimes[i].Arrival_time - StopTimes[1].Arrival_time
         curArrDepDiff == StopTimes[i].Departure_time
                            - StopTimes[i].Arrival_time
     IN [Stop |-> StopTimes[i].Stop,
         Arrival_time |-> getGtfsTimeFromSec(time + diff),
         Departure_time |-> getGtfsTimeFromSec(time + diff + curArrDepDiff)]]

\* Run: the loop that looks for an unused id t.Id + "_" + suffixC
RECURSIVE freeSuffix(_, _, _)
freeSuffix(f, id, suffixC) ==
  IF (id \o "_" \o ToString(suffixC)) \in DOMAIN f.Trips
  THEN freeSuffix(f, id, suffixC + 1)
  ELSE suffixC

\* Run: the frequency rows of one pack
RECURSIVE packFrequencies(_, _)
packFrequencies(eqs, pack) ==
  IF pack = <<>> THEN <<>>
  ELSE LET p == Head(pack)
           src == eqs[p.matches[1]].sourceFreq
       IN IF Len(p.matches) = 1 THEN packFrequencies(eqs, Tail(pack))
          ELSE <<[Start_time |-> eqs[p.matches[1]].t,
                  End_time |->
                    getGtfsTimeFromSec(eqs[p.matches[Len(p.matches)]].t
                                         + p.headways),
                  Headway_secs |-> p.headways,
                  Exact_times |-> IF src # NilFreq THEN src.Exact_times
                                  ELSE TRUE]>>
               \o packFrequencies(eqs, Tail(pack))

smallestStartTime(eqs, pack) ==
  Min({eqs[pack[1].matches[1]].t}
        \cup {eqs[pack[n].matches[1]].t :
                n \in {m \in 1 .. Len(pack) : Len(pack[m].matches) # 1}})

\* Run: the loop over packed; id is the id of t, created the new trips
RECURSIVE emitPacks(_, _, _, _, _, _)
emitPacks(f, id, eqs, packed, suffixC, created) ==
  IF packed = <<>> THEN [feed |-> f, created |-> created]
  ELSE LET indProgr == Head(packed)
           n == IF suffixC > 1 THEN freeSuffix(f, id, suffixC) ELSE suffixC
           curId == IF suffixC > 1 THEN id \o "_" \o ToString(n) ELSE id
           curTrip == [f.Trips[id] EXCEPT
                         !.Frequencies = packFrequencies(eqs, indProgr),
                         !.StopTimes =
                            remeasureStopTimes(@,
                              smallestStartTime(eqs, indProgr))]
       IN emitPacks([f EXCEPT !.Trips = mapSet(@, curId, curTrip)], id, eqs,
                    Tail(packed), n + 1,
                    IF suffixC > 1 THEN created \cup {curId} ELSE created)

\* feed.DeleteTrip for every trip of ids
DeleteTrips(f, ids) ==
  [f EXCEPT !.Trips = [t \in (DOMAIN @) \ ids |-> @[t]]]

FMStopTimes(arr, dwell, travel) ==
  <<[Stop |-> "A", Arrival_time |-> arr, Departure_time |-> arr + dwell],
    [Stop |-> "B", Arrival_time |-> arr + travel,
     Departure_time |-> arr + dwell + travel]>>

FMTrip(arr, dwell, travel, freqs) ==
  [Route |-> "r1", Service |-> "s1", Headsign |-> "h",
   StopTimes |-> FMStopTimes(arr, dwell, travel), Frequencies |-> freqs]

\* Three trips from stop A to stop B on one route and service: t1 arrives
\* at A at 8:00, t2 at 8:05 or 8:10 and t3 at 8:20 or 8:25; each waits at
\* both stops for 0 or 5 minutes; t2 takes 10 or 15 minutes from A to B;
\* t3 can have a frequency row from 8:20 to 8:40 every 10 minutes.
FMInit ==
  /\ \E d1 \in {0, 300}, a2 \in {29100, 29400}, d2 \in {0, 300},
        tr2 \in {600, 900}, a3 \in {30000, 30300}, d3 \in {0, 300},
        f3 \in {<<>>} \cup {<<[Start_time |-> 30000, End_time |-> 31200,
                              Headway_secs |-> 600, Exact_times |-> e]>> :
                             e \in BOOLEAN} :
       feed = [Trips |->
                 [t \in {"t1", "t2", "t3"} |->
                    CASE t = "t1" -> FMTrip(28800, d1, 600, <<>>)
                      [] t = "t2" -> FMTrip(a2, d2, tr2, <<>>)
                      [] t = "t3" -> FMTrip(a3, d3, 600, f3)]]
  /\ feed0 = feed
  /\ pc = "Run"
  /\ loc = [tripsSl |-> {}, processed |-> {}, visited |-> {},
            created |-> {}]

\* Run up to the loop over feed.Trips: tripsSl is built
FMRun ==
  /\ pc = "Run"
  /\ loc' = [loc EXCEPT !.tripsSl = DOMAIN feed.Trips]
  /\ pc' = "trips"
  /\ UNCHANGED <<feed, feed0>>

\* the objects tripsSl[t.Route][t.Service] points to: a deleted trip is
\* the object it was in the input, as only the trip that keeps its id is
\* ever written to
FMTripsSl(id) ==
  LET obj(t) == IF t \in DOMAIN feed.Trips THEN feed.Trips[t]
                ELSE feed0.Trips[t]
  IN [t \in {u \in loc.tripsSl : /\ obj(u).Route = feed.Trips[id].Route
                                 /\ obj(u).Service = feed.Trips[id].Service}
        |-> obj(t)]

\* one iteration of the loop over feed.Trips
FMVisit(id) ==
  /\ pc = "trips"
  /\ id \in (DOMAIN feed.Trips) \ loc.visited
  /\ IF id \in loc.processed \/ Len(feed.Trips[id].StopTimes) = 0
     THEN /\ feed' = feed
          /\ loc' = [loc EXCEPT !.visited = @ \cup {id}]
     ELSE LET W == getTimeIndependentEquivalentTrips(id, FMTripsSl(id))
              coveredTrips == {w.Trip : w \in W}
          IN IF Cardinality(W) < 2
             THEN /\ feed' = feed
                  /\ loc' = [loc EXCEPT !.visited = @ \cup {id},
                                        !.processed = @ \cup coveredTrips]
             ELSE \E eqs \in sortedWrappers(W) :
                  \E cands \in getCover(eqs, FALSE),
                     candsOverlapping \in getCover(eqs, TRUE) :
                    LET first == packCovers(cands, eqs)
                        packedOverlapping == packCovers(candsOverlapping, eqs)
                        packed == IF Len(first) > Len(packedOverlapping)
                                  THEN packedOverlapping ELSE first
                        out == emitPacks(feed, id, eqs, packed, 1, {})
                    IN IF Len(packed) >= Cardinality(coveredTrips)
                       THEN /\ feed' = feed
                            /\ loc' = [loc EXCEPT
                                         !.visited = @ \cup {id},
                                         !.processed = @ \cup coveredTrips]
                       ELSE /\ feed' = DeleteTrips(out.feed,
                                                   coveredTrips \ {id})
                            /\ loc' = [loc EXCEPT
                                         !.visited = @ \cup {id},
                                         !.processed =
                                            @ \cup coveredTrips
                                              \cup out.created,
                                         !.created = @ \cup out.created]
  /\ UNCHANGED <<feed0, pc>>

\* the range over feed.Trips ends; a trip inserted during the range may
\* have been left out.  The feed has no transfers for CleanTransfers.
FMReturn ==
  /\ pc = "trips"
  /\ (DOMAIN feed.Trips) \ loc.visited \subseteq loc.created
  /\ pc' = "done"
  /\ UNCHANGED <<feed, feed0, loc>>

FMNext ==
  \/ FMRun
  \/ \E id \in {"t1", "t2", "t3", "t1_2", "t2_2", "t3_2"} : FMVisit(id)
  \/ FMReturn

SpecFM == FMInit /\ [][FMNext]_vars

\* the first-stop departures of a feed, one element for each departure
firstStopDepartures(f) ==
  UNION {
    IF Len(f.Trips[id].Frequencies) = 0
    THEN {[trip |-> id, row |-> 0,
           time |-> f.Trips[id].StopTimes[1].Departure_time]}
    ELSE UNION {{[trip |-> id, row |-> r, time |-> s] :
                   s \in expandFrequency(f.Trips[id].Frequencies[r])} :
                r \in 1 .. Len(f.Trips[id].Frequencies)} :
    id \in DOMAIN f.Trips}

departuresAt(f, x) == Cardinality({e \in firstStopDepartures(f) : e.time = x})

\* C3: after FrequencyMinimizer has run, every time of day is the
\* first-stop departure time of as many expanded output trips as of
\* expanded input trips: no departure is lost, added or duplicated.
C3_DeparturesPreserved ==
  pc = "done" =>
    \A x \in {e.time : e \in firstStopDepartures(feed0)
                              \cup firstStopDepartures(feed)} :
      departuresAt(feed, x) = departuresAt(feed0, x)

\* ---------------------------------------------------------------------
\* TripDuplicateRemover
\* ---------------------------------------------------------------------
\* A trip is [Id, Route, Service, StopTimes, Frequencies, Headsign,
\* Short_name, Direction_id, Block_id, Shape, Wheelchair_accessible,
\* Bikes_allowed] with Route, Service and Shape the ids of the objects
\* pointed to and None for a nil pointer.  The trips of the feeds the
\* processor is run on have no frequency rows, shapes, attributions or
\* additional columns and agree in the attributes tripAttrEq compares
\* besides the route, so that the attribute updates of the reference trip
\* (300-331) leave it as it is.  m is the processor with the
\* feed: [feed, serviceRefs, serviceList, serviceIdC, refDate, Fuzzy,
\* Aggressive]; serviceRefs and serviceList are keyed by the id of the
\* service object.

\* the value the command line tool constructs the processor with
MaxDayDist == 7

getParent(stops, stop) ==
  LET s == stops[stop]
  IN IF s.Location_type = 1 THEN stop
     ELSE IF s.Location_type \in {0, 2, 3}
     THEN IF s.Parent_station # None THEN s.Parent_station ELSE stop
     ELSE IF s.Location_type = 4 /\ s.Parent_station # None
     THEN IF stops[s.Parent_station].Parent_station # None
          THEN stops[s.Parent_station].Parent_station
          ELSE s.Parent_station
     ELSE stop

stopEq(stops, a, b) == getParent(stops, a) = getParent(stops, b)

\* a variant of tripStEq that compares the times of the first and of the
\* last stop only
tripStEqEnds(stops, a, b) ==
  /\ Len(a.StopTimes) = Len(b.StopTimes)
  /\ \A i \in 1 .. Len(a.StopTimes) :
       LET aSt == a.StopTimes[i]
           bSt == b.StopTimes[i]
       IN /\ stopEq(stops, aSt.Stop, bSt.Stop)
          /\ i = 1 => aSt.Departure_time = bSt.Departure_time
          /\ i = Len(a.StopTimes) => aSt.Arrival_time = bSt.Arrival_time

tripStEq(stops, a, b) ==
  /\ Len(a.StopTimes) = Len(b.StopTimes)
  /\ \A i \in 1 .. Len(a.StopTimes) :
       LET aSt == a.StopTimes[i]
           bSt == b.StopTimes[i]
       IN /\ stopEq(stops, aSt.Stop, bSt.Stop)
          /\ \/ i = 1 /\ aSt.Departure_time = bSt.Departure_time
             \/ i = Len(a.StopTimes) /\ aSt.Arrival_time = bSt.Arrival_time
             \/ /\ aSt.Arrival_time = bSt.Arrival_time
                /\ aSt.Departure_time = bSt.Departure_time

\* gtfs.GetTypeFromExtended for the route types of the feeds: 700 is the
\* extended type of a bus service, 3 the basic one
GetTypeFromExtended(t) == IF t = 700 THEN 3 ELSE t

typeComp(a, b) == GetTypeFromExtended(a) = GetTypeFromExtended(b)

\* a pointer to a string is None or the string: the pointers of two trips
\* are equal only when both are nil
tripAttrEq(m, a, b) ==
  IF ~m.Fuzzy /\ a.Route # b.Route THEN FALSE
  ELSE IF m.Fuzzy /\ ~typeComp(m.feed.Routes[a.Route].Type,
                               m.feed.Routes[b.Route].Type) THEN FALSE
  ELSE IF Len(a.Frequencies) # 0 \/ Len(b.Frequencies) # 0 THEN FALSE
  ELSE IF m.Fuzzy THEN TRUE
  ELSE /\ \A fld \in DOMAIN m.feed.TripsAddFlds :
            mapGet(m.feed.TripsAddFlds[fld], a.Id)
              = mapGet(m.feed.TripsAddFlds[fld], b.Id)
       /\ a.Wheelchair_accessible = b.Wheelchair_accessible
       /\ a.Bikes_allowed = b.Bikes_allowed
       /\ a.Short_name = b.Short_name
       /\ a.Headsign = b.Headsign
       /\ a.Block_id = b.Block_id

\* a stand-in for the FNV hash of the hashed attributes
tripHash(m, t) ==
  (Len(t.StopTimes) + t.StopTimes[1].Departure_time
     + t.StopTimes[Len(t.StopTimes)].Arrival_time
     + GetTypeFromExtended(m.feed.Routes[t.Route].Type)
     + (IF m.Fuzzy THEN 0 ELSE Len(t.Route))) % HashValues

\* the buckets of getTripChunks, one after the other as the goroutines'
\* results are read; order is the order of the range over feed.Trips
getTripChunks(m, order) ==
  [h \in 1 .. HashValues |->
     SelectSeq(order, LAMBDA t : /\ Len(m.feed.Trips[t].StopTimes) # 0
                                 /\ tripHash(m, m.feed.Trips[t]) = h - 1)]

getDateFromRefDay(m, d) == m.refDate + d

\* the days from the first to the last active date on which s is active
RECURSIVE serviceDays(_, _, _, _)
serviceDays(s, d, end, refDate) ==
  IF d = NoDate \/ d > end THEN <<>>
  ELSE (IF IsActiveOn(s, d) THEN <<d - refDate>> ELSE <<>>)
         \o serviceDays(s, d + 1, end, refDate)

writeServiceList(m, id, s) ==
  [m EXCEPT !.serviceList =
     mapSet(@, id, serviceDays(s, GetFirstActiveDate(s), GetLastActiveDate(s),
                               m.refDate))]

RECURSIVE merge(_, _, _, _, _)
merge(a, b, i, j, ret) ==
  LET add(x) == IF Len(ret) = 0 \/ ret[Len(ret)] # x THEN Append(ret, x)
                ELSE ret
  IN IF i <= Len(a) /\ j <= Len(b)
     THEN IF a[i] = b[j] THEN merge(a, b, i + 1, j + 1, add(a[i]))
          ELSE IF a[i] < b[j] THEN merge(a, b, i + 1, j, add(a[i]))
          ELSE merge(a, b, i, j + 1, add(b[j]))
     ELSE IF i <= Len(a) THEN merge(a, b, i + 1, j, add(a[i]))
     ELSE IF j <= Len(b) THEN merge(a, b, i, j + 1, add(b[j]))
     ELSE ret

RECURSIVE diffLoop(_, _, _, _, _)
diffLoop(a, b, i, j, ret) ==
  IF i <= Len(a) /\ j <= Len(b)
  THEN IF a[i] = b[j] THEN diffLoop(a, b, i + 1, j + 1, ret)
       ELSE IF a[i] < b[j] THEN diffLoop(a, b, i + 1, j, Append(ret, a[i]))
       ELSE diffLoop(a, b, i, j + 1, Append(ret, a[i]))
  ELSE IF i <= Len(a) THEN diffLoop(a, b, i + 1, j, Append(ret, a[i]))
  ELSE IF j <= Len(b) THEN diffLoop(a, b, i, j + 1, Append(ret, b[j]))
  ELSE ret

diff(a, b) ==
  IF Len(a) = 0 THEN b
  ELSE IF Len(b) = 0 THEN a
  ELSE diffLoop(a, b, 1, 1, <<>>)

RECURSIVE intersectLoop(_, _, _, _, _)
intersectLoop(a, b, i, j, ret) ==
  IF i <= Len(a) /\ j <= Len(b)
  THEN IF a[i] = b[j] THEN intersectLoop(a, b, i + 1, j + 1, Append(ret, a[i]))
       ELSE IF a[i] < b[j] THEN intersectLoop(a, b, i + 1, j, ret)
       ELSE intersectLoop(a, b, i, j + 1, ret)
  ELSE ret

intersect(a, b) ==
  IF Len(a) = 0 \/ Len(b) = 0 THEN <<>>
  ELSE IF a[1] > b[Len(b)] \/ b[1] > a[Len(a)] THEN <<>>
  ELSE intersectLoop(a, b, 1, 1, <<>>)

\* tripCalEq reaches aDList[len(aDList)-1] with an empty aDList
tripCalEqPanics(m, a, b) ==
  LET sa == m.feed.Services[a.Service]
      sb == m.feed.Services[b.Service]
  IN /\ a.Service # b.Service
     /\ m.Fuzzy
     /\ ~(sa.start # NoDate /\ sb.start # NoDate
            /\ DOMAIN sa.exc = {} /\ DOMAIN sb.exc = {})
     /\ Len(m.serviceList[a.Service]) = Len(m.serviceList[b.Service])
     /\ Len(m.serviceList[a.Service]) = 0

tripCalEq(m, a, b) ==
  LET sa == m.feed.Services[a.Service]
      sb == m.feed.Services[b.Service]
  IN IF a.Service = b.Service THEN TRUE
     ELSE IF ~m.Fuzzy THEN FALSE
     ELSE IF sa.start # NoDate /\ sb.start # NoDate
               /\ DOMAIN sa.exc = {} /\ DOMAIN sb.exc = {}
     THEN sa.start = sb.start /\ sa.end = sb.end /\ sa.daymap = sb.daymap
     ELSE m.serviceList[a.Service] = m.serviceList[b.Service]

tripCalContained(m, child, parent) ==
  LET childDList == m.serviceList[child.Service]
      parentDList == m.serviceList[parent.Service]
  IN IF Len(childDList) = 0 THEN TRUE
     ELSE IF Len(parentDList) = 0 THEN FALSE
     ELSE IF Len(childDList) > Len(parentDList) THEN FALSE
     ELSE intersect(childDList, parentDList) = childDList

\* a - b in uint64: a negative difference wraps to a value that exceeds
\* every maxdist
uintSub(a, b) == IF a >= b THEN a - b ELSE MaxUint - (b - a) + 1

tripCalAdj(m, child, parent, maxdist) ==
  LET sc == m.feed.Services[child.Service]
      sp == m.feed.Services[parent.Service]
      childList == m.serviceList[child.Service]
      parentList == m.serviceList[parent.Service]
      diffFront == uintSub(parentList[1], childList[Len(childList)])
      diffBack == uintSub(childList[1], parentList[Len(parentList)])
  IN IF m.Aggressive THEN TRUE
     ELSE IF ~(sc.start # NoDate /\ sp.start # NoDate
                 /\ sc.daymap = sp.daymap) THEN FALSE
     ELSE IF Len(childList) = 0 \/ Len(parentList) = 0 THEN FALSE
     ELSE \/ diffFront > 0 /\ diffFront <= maxdist
          \/ diffBack > 0 /\ diffBack <= maxdist

tripCalOverlap(m, a, b) ==
  intersect(m.serviceList[a.Service], m.serviceList[b.Service])

\* the first value of serviceIdC from c on whose id is free
RECURSIVE freeServiceIdC(_, _)
freeServiceIdC(services, c) ==
  IF ("merged" \o ToString(c)) \in DOMAIN services
  THEN freeServiceIdC(services, c + 1) ELSE c

\* service.SetExceptionTypeOn(date, t) for the dates of dlist from k on;
\* with onlyInactive, for the dates on which the service is not active
RECURSIVE setExceptions(_, _, _, _, _, _)
setExceptions(m, s, dlist, k, t, onlyInactive) ==
  IF k > Len(dlist) THEN s
  ELSE LET date == getDateFromRefDay(m, dlist[k])
       IN setExceptions(m,
            IF onlyInactive /\ IsActiveOn(s, date) THEN s
            ELSE SetExceptionTypeOn(s, date, t),
            dlist, k + 1, t, onlyInactive)

RECURSIVE mergeLists(_, _, _, _, _)
mergeLists(m, dlist, services, ref, k) ==
  IF k > Len(services) THEN dlist
  ELSE mergeLists(m,
         IF services[k] = ref THEN dlist
         ELSE merge(dlist, m.serviceList[services[k]], 1, 1, <<>>),
         services, ref, k + 1)

RECURSIVE extendRange(_, _, _, _)
extendRange(m, s, services, k) ==
  IF k > Len(services) THEN s
  ELSE LET l == m.serviceList[services[k]]
           first == getDateFromRefDay(m, l[1])
           last == getDateFromRefDay(m, l[Len(l)])
           s1 == IF first < s.start THEN [s EXCEPT !.start = first] ELSE s
           s2 == IF last > s1.end THEN [s1 EXCEPT !.end = last] ELSE s1
       IN extendRange(m, s2, services, k + 1)

\* a variant of combineServices that does not delete the wrong dates of
\* the extended range
combineServicesKeepRange(m, services, ref) ==
  LET s0 == m.feed.Services[ref]
      dlist == mergeLists(m, m.serviceList[ref], services, ref, 1)
      s1 == IF s0.start # NoDate
            THEN setExceptions(m, extendRange(m, s0, services, 1), dlist, 1, 1,
                               TRUE)
            ELSE setExceptions(m, s0, dlist, 1, 1, TRUE)
  IN writeServiceList([m EXCEPT !.feed.Services[ref] = s1], ref, s1)

combineServices(m, services, ref) ==
  LET s0 == m.feed.Services[ref]
      dlist == mergeLists(m, m.serviceList[ref], services, ref, 1)
      added == setExceptions(m, extendRange(m, s0, services, 1), dlist, 1, 1,
                             TRUE)
      dlistNew == writeServiceList(m, ref, added).serviceList[ref]
      s1 == IF s0.start # NoDate
            THEN setExceptions(m, added, diff(dlistNew, dlist), 1, 2, FALSE)
            ELSE setExceptions(m, s0, dlist, 1, 1, TRUE)
  IN writeServiceList([m EXCEPT !.feed.Services[ref] = s1], ref, s1)

\* feed.DeleteTrip(t.Id) and m.serviceRefs[t.Service]-- for the trips of
\* the slice other than ref
RECURSIVE deleteTrips(_, _, _, _)
deleteTrips(m, ref, trips, k) ==
  IF k > Len(trips) THEN m
  ELSE IF trips[k] = ref THEN deleteTrips(m, ref, trips, k + 1)
  ELSE LET sid == m.feed.Trips[trips[k]].Service
       IN deleteTrips([m EXCEPT !.feed.Trips = mapDelete(@, trips[k]),
                                !.serviceRefs[sid] = @ - 1],
                      ref, trips, k + 1)

combineEqTrips(m, ref, trips) == deleteTrips(m, ref, trips, 1)

combineContTrips(m, ref, trips) == deleteTrips(m, ref, trips, 1)

combineAdjTrips(m, ref, trips) ==
  LET old == m.feed.Trips[ref].Service
      c == freeServiceIdC(m.feed.Services, m.serviceIdC)
      id == "merged" \o ToString(c)
      m1 == IF m.serviceRefs[old] # 1
            THEN writeServiceList(
                   [m EXCEPT !.serviceIdC = c,
                             !.serviceRefs = mapSet(mapSet(@, old, @[old] - 1),
                                                    id, 1),
                             !.feed.Trips[ref].Service = id,
                             !.feed.Services = mapSet(@, id, @[old])],
                   id, m.feed.Services[old])
            ELSE m
      combServices == [k \in 1 .. Len(trips) |-> m1.feed.Trips[trips[k]].Service]
      m2 == combineServices(m1, combServices, m1.feed.Trips[ref].Service)
  IN deleteTrips(m2, ref, trips, 1)

RECURSIVE overlapDates(_, _)
overlapDates(overlaps, k) ==
  IF k > Len(overlaps) THEN <<>>
  ELSE overlaps[k].Dates \o overlapDates(overlaps, k + 1)

\* a variant of excludeTrips that always changes the service of the
\* reference trip in place
excludeTripsInPlace(m, ref, overlaps) ==
  LET old == m.feed.Trips[ref].Service
      s == setExceptions(m, m.feed.Services[old], overlapDates(overlaps, 1),
                         1, 2, FALSE)
      inplace == writeServiceList([m EXCEPT !.feed.Services[old] = s], old, s)
  IN IF Len(inplace.serviceList[old]) = 0
     THEN [inplace EXCEPT !.feed.Trips = mapDelete(@, ref),
                          !.serviceRefs[old] = @ - 1]
     ELSE inplace

\* a variant of excludeTrips that keeps a reference trip whose service it
\* has emptied
excludeTripsKeepEmptied(m, ref, overlaps) ==
  LET old == m.feed.Trips[ref].Service
      s == setExceptions(m, m.feed.Services[old], overlapDates(overlaps, 1),
                         1, 2, FALSE)
      c == freeServiceIdC(m.feed.Services, m.serviceIdC)
      id == "merged" \o ToString(c)
      inplace == writeServiceList([m EXCEPT !.feed.Services[old] = s], old, s)
      copied == writeServiceList([m EXCEPT !.serviceIdC = c], id, s)
  IN IF m.serviceRefs[old] = 1
     THEN inplace
     ELSE [copied EXCEPT !.serviceRefs = mapSet(mapSet(@, old, @[old] - 1),
                                                id, 1),
                         !.feed.Trips[ref].Service = id,
                         !.feed.Services = mapSet(@, id, s)]

excludeTrips(m, ref, overlaps) ==
  LET old == m.feed.Trips[ref].Service
      dates == overlapDates(overlaps, 1)
      s == setExceptions(m, m.feed.Services[old], dates, 1, 2, FALSE)
      c == freeServiceIdC(m.feed.Services, m.serviceIdC)
      id == "merged" \o ToString(c)
      inplace == writeServiceList([m EXCEPT !.feed.Services[old] = s], old, s)
      copied == writeServiceList([m EXCEPT !.serviceIdC = c], id, s)
  IN IF m.serviceRefs[old] = 1
     THEN IF Len(inplace.serviceList[old]) = 0
          THEN [inplace EXCEPT !.feed.Trips = mapDelete(@, ref),
                               !.serviceRefs[old] = @ - 1]
          ELSE inplace
     ELSE IF Len(copied.serviceList[id]) = 0
          THEN [copied EXCEPT !.feed.Trips = mapDelete(@, ref),
                              !.serviceRefs[old] = @ - 1]
          ELSE [copied EXCEPT !.serviceRefs = mapSet(mapSet(@, old, @[old] - 1),
                                                     id, 1),
                              !.feed.Trips[ref].Service = id,
                              !.feed.Services = mapSet(@, id, s)]

\* the calendar test of the round: "eq", "contained", "overlap" or "adj"
tripCalMatch(m, kind, ta, tb, maxDist) ==
  IF kind = "eq" THEN tripCalEq(m, ta, tb)
  ELSE IF kind = "contained" THEN tripCalContained(m, tb, ta)
  ELSE IF kind = "overlap" THEN Len(tripCalOverlap(m, tb, ta)) > 0
  ELSE tripCalAdj(m, tb, ta, maxDist)

\* a variant of findGroups that does not skip the trips of earlier groups
RECURSIVE findGroupsUnmarked(_, _, _, _, _, _, _)
findGroupsUnmarked(m, kind, maxDist, trips, k, processed, rets) ==
  IF k > Len(trips) THEN [rets |-> rets, panic |-> FALSE]
  ELSE
    LET ta == m.feed.Trips[trips[k]]
        tbs == SelectSeq(trips, LAMBDA b :
                 /\ b # trips[k]
                 /\ tripAttrEq(m, ta, m.feed.Trips[b])
                 /\ tripStEq(m.feed.Stops, ta, m.feed.Trips[b])
                 /\ kind # "eq"
                 /\ tripCalMatch(m, kind, ta, m.feed.Trips[b], maxDist))
        group == <<[Trip |-> trips[k], Dates |-> <<>>]>>
                   \o [j \in 1 .. Len(tbs) |-> [Trip |-> tbs[j], Dates |-> <<>>]]
    IN findGroupsUnmarked(m, kind, maxDist, trips, k + 1, processed,
                          IF tbs = <<>> THEN rets ELSE Append(rets, group))

\* the loop of one goroutine over the trips of one bucket, from the k-th
\* on: the groups it appends to rets, each a list of [Trip, Dates] with
\* the reference trip first, and whether tripCalEq panics on the way
RECURSIVE findGroups(_, _, _, _, _, _, _)
findGroups(m, kind, maxDist, trips, k, processed, rets) ==
  IF k > Len(trips) THEN [rets |-> rets, panic |-> FALSE]
  ELSE IF trips[k] \in processed
  THEN findGroups(m, kind, maxDist, trips, k + 1, processed, rets)
  ELSE
    LET ta == m.feed.Trips[trips[k]]
        cands == SelectSeq(trips, LAMBDA b :
                   /\ b # trips[k]
                   /\ b \notin processed
                   /\ tripAttrEq(m, ta, m.feed.Trips[b])
                   /\ tripStEq(m.feed.Stops, ta, m.feed.Trips[b]))
        tbs == SelectSeq(cands, LAMBDA b :
                 tripCalMatch(m, kind, ta, m.feed.Trips[b], maxDist))
        dates(b) == IF kind = "overlap"
                    THEN tripCalOverlap(m, m.feed.Trips[b], ta) ELSE <<>>
        group == <<[Trip |-> trips[k],
                    Dates |-> IF tbs = <<>> THEN <<>> ELSE dates(tbs[1])]>>
                   \o [j \in 1 .. Len(tbs) |->
                         [Trip |-> tbs[j], Dates |-> dates(tbs[j])]]
    IN IF kind = "eq" /\ \E j \in 1 .. Len(cands) :
                           tripCalEqPanics(m, ta, m.feed.Trips[cands[j]])
       THEN [rets |-> rets, panic |-> TRUE]
       ELSE IF tbs = <<>>
       THEN findGroups(m, kind, maxDist, trips, k + 1, processed, rets)
       ELSE findGroups(m, kind, maxDist, trips, k + 1,
                       processed \cup {group[j].Trip : j \in 1 .. Len(group)},
                       Append(rets, group))

RECURSIVE findAllGroups(_, _, _, _, _)
findAllGroups(m, kind, maxDist, chunks, h) ==
  IF h > Len(chunks) THEN [rets |-> <<>>, panic |-> FALSE]
  ELSE LET r == findGroups(m, kind, maxDist, chunks[h], 1, {}, <<>>)
           rest == findAllGroups(m, kind, maxDist, chunks, h + 1)
       IN [rets |-> r.rets \o rest.rets, panic |-> r.panic \/ rest.panic]

RECURSIVE combineGroups(_, _, _, _)
combineGroups(m, kind, rets, k) ==
  IF k > Len(rets) THEN m
  ELSE LET ref == rets[k][1].Trip
           others == SubSeq(rets[k], 2, Len(rets[k]))
           trips == [j \in 1 .. Len(others) |-> others[j].Trip]
       IN combineGroups(
            IF kind = "eq" THEN combineEqTrips(m, ref, trips)
            ELSE IF kind = "contained" THEN combineContTrips(m, ref, trips)
            ELSE IF kind = "overlap" THEN excludeTrips(m, ref, others)
            ELSE combineAdjTrips(m, ref, trips),
            kind, rets, k + 1)

\* "combine all results" and the value returned, unless a goroutine
\* panicked
combineResults(m, kind, found) ==
  [m |-> IF found.panic THEN m ELSE combineGroups(m, kind, found.rets, 1),
   merged |-> Len(found.rets) > 0,
   panic |-> found.panic]

\* one call of combineAllEqTrips, combineAllContainedTrips,
\* combineAllOverlapTrips or combineAllAdjTrips
combineAll(m, kind, maxDist, order) ==
  combineResults(m, kind,
    findAllGroups(m, kind, maxDist, getTripChunks(m, order), 1))

\* --- the feeds the processor is run on ---

TDStops ==
  [s \in {"A", "A1", "A2", "B", "C"} |->
     [Location_type |-> IF s = "A" THEN 1 ELSE 0,
      Parent_station |-> IF s \in {"A1", "A2"} THEN "A" ELSE None]]

TDRoutes == [r \in {"r1", "r700"} |-> [Type |-> IF r = "r1" THEN 3 ELSE 700]]

TDStopTime(stop, arr, dep) ==
  [Stop |-> stop, Arrival_time |-> arr, Departure_time |-> dep]

\* a run A - B - C; "firstArr" arrives earlier at another platform of A,
\* "lastDep" departs later from C, "midDep" departs later from B; "none" is
\* a trip of trips.txt that has no row in stop_times.txt
TDPattern(p) ==
  IF p = "none" THEN <<>> ELSE
  << IF p = "firstArr" THEN TDStopTime("A2", 28740, 28800)
     ELSE TDStopTime("A1", 28800, 28800),
     TDStopTime("B", 29100, IF p = "midDep" THEN 29220 ELSE 29160),
     TDStopTime("C", 29400, IF p = "lastDep" THEN 29460 ELSE 29400) >>

TDServices ==
  LET cal(a, b, x) == [start |-> a, end |-> b, daymap |-> 0 .. 6, exc |-> x]
      noExc == [d \in {} |-> TRUE]
  IN { cal(0, 1, noExc), cal(2, 3, noExc), cal(1, 2, noExc),
       cal(0, 3, [d \in {1} |-> FALSE]),
       [start |-> NoDate, end |-> NoDate, daymap |-> {},
        exc |-> [d \in {1, 5} |-> TRUE]],
       [start |-> NoDate, end |-> NoDate, daymap |-> {},
        exc |-> [d \in {2} |-> FALSE]] }

\* the service of the third trip when it shares none: a calendar over the
\* days 1 .. 2
TDThird == [start |-> 1, end |-> 2, daymap |-> 0 .. 6, exc |-> [d \in {} |-> TRUE]]

TDInit ==
  /\ pc = "Run"
  /\ \E sa \in TDServices, sb \in TDServices, s3 \in {"sa", "sb", "sc"},
        p2 \in {"base", "firstArr", "none"}, r2 \in {"r1", "r700"},
        p3 \in {"base", "lastDep", "midDep", "none"} :
       feed = [Trips |->
                 [t \in {"t1", "t2", "t3"} |->
                    [Id |-> t,
                     Route |-> IF t = "t2" THEN r2 ELSE "r1",
                     Service |-> IF t = "t1" THEN "sa"
                                 ELSE IF t = "t2" THEN "sb" ELSE s3,
                     StopTimes |-> TDPattern(IF t = "t1" THEN "base"
                                             ELSE IF t = "t2" THEN p2 ELSE p3),
                     Frequencies |-> <<>>, Headsign |-> "", Short_name |-> None,
                     Direction_id |-> 0, Block_id |-> None, Shape |-> None,
                     Wheelchair_accessible |-> 0, Bikes_allowed |-> 0]],
               TripsAddFlds |-> <<>>,
               Services |->
                 [s \in {"sa", "sb"} \cup (IF s3 = "sc" THEN {"sc"} ELSE {}) |->
                    IF s = "sa" THEN sa ELSE IF s = "sb" THEN sb ELSE TDThird],
               Stops |-> TDStops,
               Routes |-> TDRoutes]
  /\ feed0 = feed
  /\ \E fuzzy \in BOOLEAN, aggressive \in BOOLEAN :
       loc = [serviceRefs |-> [s \in {} |-> 0],
              serviceList |-> [s \in {} |-> <<>>],
              serviceIdC |-> 0, refDate |-> 0, i |-> 0,
              Fuzzy |-> fuzzy, Aggressive |-> aggressive]

\* the processor and the feed it works on
TDm ==
  [feed |-> feed, serviceRefs |-> loc.serviceRefs,
   serviceList |-> loc.serviceList, serviceIdC |-> loc.serviceIdC,
   refDate |-> loc.refDate, Fuzzy |-> loc.Fuzzy, Aggressive |-> loc.Aggressive]

\* the processor's fields and the feed after a call that returned r, and
\* where Run goes on: a panic ends the process
TDStore(r, pcMerged, pcElse, iMerged, iElse) ==
  /\ feed' = r.m.feed
  /\ loc' = [loc EXCEPT !.serviceRefs = r.m.serviceRefs,
                        !.serviceList = r.m.serviceList,
                        !.serviceIdC = r.m.serviceIdC,
                        !.refDate = r.m.refDate,
                        !.i = IF r.merged THEN iMerged ELSE iElse]
  /\ pc' = IF r.panic THEN "panic" ELSE IF r.merged THEN pcMerged ELSE pcElse
  /\ UNCHANGED feed0

RECURSIVE writeServiceLists(_, _)
writeServiceLists(m, ids) ==
  IF ids = {} THEN m
  ELSE LET id == CHOOSE x \in ids : TRUE
       IN writeServiceLists(writeServiceList(m, id, m.feed.Services[id]),
                            ids \ {id})

\* Run up to the first call of combineAllEqTrips
TDRun ==
  /\ pc = "Run"
  /\ LET refs == [s \in {feed.Trips[t].Service : t \in DOMAIN feed.Trips} |->
                    Cardinality({t \in DOMAIN feed.Trips :
                                   feed.Trips[t].Service = s})]
         refDate == Min({GetFirstDefinedDate(feed.Services[s]) :
                           s \in DOMAIN feed.Services})
     IN TDStore([m |-> writeServiceLists([TDm EXCEPT !.serviceRefs = refs,
                                                     !.refDate = refDate],
                                         DOMAIN feed.Services),
                 merged |-> FALSE, panic |-> FALSE],
                "eq", "eq", 0, 0)

\* for m.combineAllEqTrips(feed) {}
TDCombineAllEqTrips ==
  /\ pc = "eq"
  /\ \E order \in Perms(DOMAIN feed.Trips) :
       TDStore(combineAll(TDm, "eq", 0, order), "eq", "contained", 0, 0)

\* for m.combineAllContainedTrips(feed) {}
TDCombineAllContainedTrips ==
  /\ pc = "contained"
  /\ \E order \in Perms(DOMAIN feed.Trips) :
       TDStore(combineAll(TDm, "contained", 0, order),
               "contained", "overlap", 0, 0)

\* for m.combineAllOverlapTrips(feed) {}; then i := 1
TDCombineAllOverlapTrips ==
  /\ pc = "overlap"
  /\ \E order \in Perms(DOMAIN feed.Trips) :
       TDStore(combineAll(TDm, "overlap", 0, order), "overlap", "adj", 0, 1)

\* for m.combineAllAdjTrips(feed, uint64(i), m.Aggressive) {}; then i++
TDCombineAllAdjTrips ==
  /\ pc = "adj"
  /\ loc.i <= MaxDayDist
  /\ \E order \in Perms(DOMAIN feed.Trips) :
       TDStore(combineAll(TDm, "adj", loc.i, order),
               "adj", "adj", loc.i, loc.i + 1)

\* the end of Run; the feeds have no transfers for CleanTransfers to delete
TDReturn ==
  /\ pc = "adj"
  /\ loc.i > MaxDayDist
  /\ pc' = "done"
  /\ UNCHANGED <<feed, feed0, loc>>

TDNext ==
  \/ TDRun
  \/ TDCombineAllEqTrips
  \/ TDCombineAllContainedTrips
  \/ TDCombineAllOverlapTrips
  \/ TDCombineAllAdjTrips
  \/ TDReturn

SpecTDR == TDInit /\ [][TDNext]_vars

\* trip u of the output runs on date d
TDRunsOn(f, u, d) == IsActiveOn(f.Services[f.Trips[u].Service], d)

\* a and b have the same sequence of (parent station, arrival, departure)
TDSameTriples(a, b) ==
  /\ Len(a.StopTimes) = Len(b.StopTimes)
  /\ \A k \in 1 .. Len(a.StopTimes) :
       /\ getParent(feed0.Stops, a.StopTimes[k].Stop)
            = getParent(feed0.Stops, b.StopTimes[k].Stop)
       /\ a.StopTimes[k].Arrival_time = b.StopTimes[k].Arrival_time
       /\ a.StopTimes[k].Departure_time = b.StopTimes[k].Departure_time

\* the same, but for the arrival at the first and the departure from the
\* last stop
TDSameRun(a, b) ==
  /\ Len(a.StopTimes) = Len(b.StopTimes)
  /\ \A k \in 1 .. Len(a.StopTimes) :
       /\ getParent(feed0.Stops, a.StopTimes[k].Stop)
            = getParent(feed0.Stops, b.StopTimes[k].Stop)
       /\ k # 1 => a.StopTimes[k].Arrival_time = b.StopTimes[k].Arrival_time
       /\ k # Len(a.StopTimes)
            => a.StopTimes[k].Departure_time = b.StopTimes[k].Departure_time

MaxArgs == 3

MainFlags ==
  {"delete-orphans", "remeasure-shapes", "min-shapes", "remove-red-shapes",
   "remove-red-routes", "remove-red-services", "minimize-services",
   "remove-red-stops", "recluster-stops", "remove-red-trips",
   "minimize-stoptimes", "minimize-ids-num", "compress"}

\* the command lines of up to n different flags, in every order
RECURSIVE MainCommandLines(_)
MainCommandLines(n) ==
  IF n = 0 THEN {<<>>}
  ELSE LET shorter == MainCommandLines(n - 1)
       IN shorter \cup {Append(a, f) : a \in shorter, f \in MainFlags}

\* "if *compressShortHand { ... }"
shortHands(flags) ==
  IF "compress" \in flags
  THEN flags \cup {"delete-orphans", "min-shapes", "remove-red-shapes",
                   "remove-red-routes", "remove-red-services",
                   "remove-red-stops", "minimize-services",
                   "remove-red-trips", "remove-red-agencies"}
  ELSE flags

\* a variant of buildMinzers that appends the stop duplicate remover after
\* the shape processors
buildMinzersStopsLate(flags) ==
  LET on(f, ps) == IF f \in flags THEN ps ELSE <<>>
  IN on("delete-orphans", <<"OrphanRemover">>)
     \o on("remove-red-agencies", <<"AgencyDuplicateRemover">>)
     \o on("recluster-stops", <<"StopReclusterer">>)
     \o (IF flags \cap {"remeasure-shapes", "min-shapes", "remove-red-shapes"}
              # {}
         THEN <<"ShapeRemeasurer">> ELSE <<>>)
     \o on("min-shapes", <<"ShapeMinimizer">>)
     \o on("remove-red-shapes", <<"ShapeDuplicateRemover">>)
     \o on("remove-red-stops", <<"StopDuplicateRemover">>)
     \o on("remove-red-routes", <<"RouteDuplicateRemover">>)
     \o on("remove-red-services", <<"ServiceDuplicateRemover">>)
     \o on("remove-red-trips",
           on("minimize-services", <<"ServiceMinimizer">>)
           \o <<"TripDuplicateRemover">>
           \o on("delete-orphans", <<"OrphanRemover">>)
           \o on("remove-red-services", <<"ServiceDuplicateRemover">>))
     \o on("minimize-services", <<"ServiceMinimizer">>)
     \o on("minimize-stoptimes", <<"FrequencyMinimizer">>)
     \o on("minimize-ids-num", <<"IDMinimizer">>)

\* the appends to minzers, in the order of the if statements
buildMinzers(flags) ==
  LET on(f, ps) == IF f \in flags THEN ps ELSE <<>>
  IN on("delete-orphans", <<"OrphanRemover">>)
     \o on("remove-red-agencies", <<"AgencyDuplicateRemover">>)
     \o on("remove-red-stops", <<"StopDuplicateRemover">>)
     \o on("recluster-stops", <<"StopReclusterer">>)
     \o (IF flags \cap {"remeasure-shapes", "min-shapes", "remove-red-shapes"}
              # {}
         THEN <<"ShapeRemeasurer">> ELSE <<>>)
     \o on("min-shapes", <<"ShapeMinimizer">>)
     \o on("remove-red-shapes", <<"ShapeDuplicateRemover">>)
     \o on("remove-red-routes", <<"RouteDuplicateRemover">>)
     \o on("remove-red-services", <<"ServiceDuplicateRemover">>)
     \o on("remove-red-trips",
           on("minimize-services", <<"ServiceMinimizer">>)
           \o <<"TripDuplicateRemover">>
           \o on("delete-orphans", <<"OrphanRemover">>)
           \o on("remove-red-services", <<"ServiceDuplicateRemover">>))
     \o on("minimize-services", <<"ServiceMinimizer">>)
     \o on("minimize-stoptimes", <<"FrequencyMinimizer">>)
     \o on("minimize-ids-num", <<"IDMinimizer">>)

MainInit ==
  /\ pc = "parse"
  /\ feed = <<>>
  /\ feed0 = <<>>
  /\ \E args \in MainCommandLines(MaxArgs) :
       /\ \A i, j \in 1 .. Len(args) : i # j => args[i] # args[j]
       /\ loc = [args |-> args, flags |-> {}, minzers |-> <<>>, line |-> args]

\* flag.Parse() on the next argument
MainParse ==
  /\ pc = "parse"
  /\ loc.args # <<>>
  /\ loc' = [loc EXCEPT !.flags = @ \cup {Head(loc.args)},
                        !.args = Tail(@)]
  /\ UNCHANGED <<feed, feed0, pc>>

\* the shorthands, once the command line is parsed
MainShortHands ==
  /\ pc = "parse"
  /\ loc.args = <<>>
  /\ loc' = [loc EXCEPT !.flags = shortHands(@)]
  /\ pc' = "build"
  /\ UNCHANGED <<feed, feed0>>

MainBuild ==
  /\ pc = "build"
  /\ loc' = [loc EXCEPT !.minzers = buildMinzers(loc.flags)]
  /\ pc' = "run"
  /\ UNCHANGED <<feed, feed0>>

\* one iteration of "for _, m := range minzers { m.Run(feed) }"
MainRun ==
  /\ pc = "run"
  /\ loc.minzers # <<>>
  /\ feed' = Append(feed, Head(loc.minzers))
  /\ loc' = [loc EXCEPT !.minzers = Tail(@)]
  /\ UNCHANGED <<feed0, pc>>

MainRunEnd ==
  /\ pc = "run"
  /\ loc.minzers = <<>>
  /\ pc' = "done"
  /\ UNCHANGED <<feed, feed0, loc>>

MainNext ==
  \/ MainParse
  \/ MainShortHands
  \/ MainBuild
  \/ MainRun
  \/ MainRunEnd

SpecMain == MainInit /\ [][MainNext]_vars

\* the order the specification gives
C11Rank(p) ==
  CASE p = "OrphanRemover" -> 1
    [] p = "ShapeRemeasurer" -> 2
    [] p = "ShapeMinimizer" -> 3
    [] p = "ShapeDuplicateRemover" -> 4
    [] p = "RouteDuplicateRemover" -> 5
    [] p = "ServiceDuplicateRemover" -> 6
    [] p = "ServiceMinimizer" -> 7
    [] p = "StopDuplicateRemover" -> 8
    [] p = "StopReclusterer" -> 9
    [] p = "TripDuplicateRemover" -> 10
    [] p = "FrequencyMinimizer" -> 11
    [] p = "IDMinimizer" -> 12
    [] OTHER -> 0

\* C11 as the specification states it: of any two processors that ran, the
\* one that ran first comes first in the order orphan sweep, shape
\* remeasure, shape minimize, shape dedupe, route dedupe, service dedupe,
\* service minimize, stop dedupe, stop recluster, trip dedupe, frequency
\* minimize, ID minimize
C11_ClaimedOrder ==
  pc = "done" =>
    \A i, j \in 1 .. Len(feed) :
      (i < j /\ C11Rank(feed[i]) # 0 /\ C11Rank(feed[j]) # 0)
        => C11Rank(feed[i]) <= C11Rank(feed[j])

\* the processors in the order of the pipeline; the trip duplicate remover
\* comes with runs of the service minimizer before it and of the orphan
\* and the service duplicate remover after it
C11Pipeline ==
  <<"OrphanRemover", "AgencyDuplicateRemover", "StopDuplicateRemover",
    "StopReclusterer", "ShapeRemeasurer", "ShapeMinimizer",
    "ShapeDuplicateRemover", "RouteDuplicateRemover",
    "ServiceDuplicateRemover", "ServiceMinimizer", "TripDuplicateRemover",
    "OrphanRemover", "ServiceDuplicateRemover", "ServiceMinimizer",
    "FrequencyMinimizer", "IDMinimizer">>

\* s is t with some elements left out
RECURSIVE IsSubSeq(_, _)
IsSubSeq(s, t) ==
  IF s = <<>> THEN TRUE
  ELSE IF t = <<>> THEN FALSE
  ELSE IF Head(s) = Head(t) THEN IsSubSeq(Tail(s), Tail(t))
  ELSE IsSubSeq(s, Tail(t))

\* C11, amended: whatever the order of the flags on the command line, the
\* processors run in the order of one fixed list, in which the stop
\* processors come before the shape processors and the orphan sweep, the
\* service dedupe and the service minimize occur twice
C11_FixedOrder ==
  pc = "done" => IsSubSeq(feed, C11Pipeline)

\* a run in which the stop duplicate remover ran before the shape
\* remeasurer although the command line named the shape flag first
C11_Witness ==
  /\ pc = "done"
  /\ loc.line = <<"remeasure-shapes", "remove-red-stops">>
  /\ feed = <<"StopDuplicateRemover", "ShapeRemeasurer">>

\* ---------------------------------------------------------------------
\* TripDuplicateRemover: the rounds
\* ---------------------------------------------------------------------

\* the number of trips of f that refer to the service s
TDRefsOf(f, s) == Cardinality({t \in DOMAIN f.Trips : f.Trips[t].Service = s})

\* C14: in a call of the overlap or of the adjacent round, a trip that
\* survives either keeps its service untouched, or is the only trip that
\* referred to its service, which is changed in place, or is moved to a
\* service with an id the feed did not have, while the service it shared
\* keeps its content and loses one reference; the reference counts are
\* those of the feed
C14_CopyOnWrite ==
  [][(pc \in {"overlap", "adj"} /\ pc' \in {"overlap", "adj"}) =>
       /\ \A t \in (DOMAIN feed.Trips) \cap (DOMAIN feed'.Trips) :
            LET s == feed.Trips[t].Service
                s2 == feed'.Trips[t].Service
            IN \/ s2 = s /\ feed'.Services[s] = feed.Services[s]
               \/ s2 = s /\ TDRefsOf(feed, s) = 1
               \/ /\ s2 # s
                  /\ s2 \notin DOMAIN feed.Services
                  /\ feed'.Services[s] = feed.Services[s]
                  /\ loc'.serviceRefs[s] < loc.serviceRefs[s]
       /\ \A s \in DOMAIN feed.Services :
            /\ s \in DOMAIN feed'.Services
            /\ TDRefsOf(feed, s) # 1 => feed'.Services[s] = feed.Services[s]
       /\ \A s \in DOMAIN feed'.Services :
            s \in DOMAIN loc'.serviceRefs
              => loc'.serviceRefs[s] = TDRefsOf(feed', s)]_vars

\* a run in which one of two trips that shared a service was moved to a
\* generated service with other active days, while the other trip still
\* has the shared service as it was in the input
C14_Witness ==
  /\ pc = "done"
  /\ \E t \in DOMAIN feed.Trips, u \in DOMAIN feed.Trips :
       /\ t # u
       /\ feed0.Trips[t].Service = feed0.Trips[u].Service
       /\ feed.Trips[t].Service = "merged0"
       /\ feed.Trips[u].Service = feed0.Trips[u].Service
       /\ feed.Services[feed.Trips[u].Service]
            = feed0.Services[feed0.Trips[u].Service]
       /\ ActiveDays(feed.Services["merged0"])
            # ActiveDays(feed0.Services[feed0.Trips[t].Service])

\* the active days of the service of the trip t of the feed f
TDActiveDays(f, t) == ActiveDays(f.Services[f.Trips[t].Service])

\* the trips t and u of f are attribute-equal and stop-time-equal
TDAlike(f, m, t, u) ==
  /\ t # u
  /\ tripAttrEq(m, f.Trips[t], f.Trips[u])
  /\ tripStEq(f.Stops, f.Trips[t], f.Trips[u])

\* a call of the overlap round leaves no surviving trip with a service that
\* the call emptied
TDEmptiedDeleted ==
  \A t \in (DOMAIN feed.Trips) \cap (DOMAIN feed'.Trips) :
    TDActiveDays(feed', t) = {} => TDActiveDays(feed, t) = {}

\* C15 as the specification states it: a call of the overlap round leaves
\* no trip with a service it emptied, and when the round ends no two
\* surviving trips that are attribute-equal and stop-time-equal are active
\* on a common day
C15_OverlapsRemoved ==
  [][pc = "overlap" =>
       /\ TDEmptiedDeleted
       /\ pc' = "adj" =>
            \A t \in DOMAIN feed'.Trips, u \in DOMAIN feed'.Trips :
              TDAlike(feed', [TDm EXCEPT !.feed = feed'], t, u)
                => TDActiveDays(feed', t) \cap TDActiveDays(feed', u) = {}]_vars

\* C15, amended: the same for the surviving trips that have two or more
\* stop times; trips without stop times are in no chunk and keep their
\* common days
C15_OverlapsRemovedOfRuns ==
  [][pc = "overlap" =>
       /\ TDEmptiedDeleted
       /\ pc' = "adj" =>
            \A t \in DOMAIN feed'.Trips, u \in DOMAIN feed'.Trips :
              (/\ TDAlike(feed', [TDm EXCEPT !.feed = feed'], t, u)
               /\ Len(feed'.Trips[t].StopTimes) >= 2)
                => TDActiveDays(feed', t) \cap TDActiveDays(feed', u) = {}]_vars

\* the end of an overlap round after which two trips with stop times that
\* are attribute-equal and stop-time-equal, and had a common day in the
\* input, are both left and have no common day
C15_Witness ==
  /\ pc = "adj"
  /\ loc.i = 1
  /\ \E t \in DOMAIN feed.Trips, u \in DOMAIN feed.Trips :
       /\ TDAlike(feed, TDm, t, u)
       /\ Len(feed.Trips[t].StopTimes) >= 2
       /\ TDActiveDays(feed0, t) \cap TDActiveDays(feed0, u) # {}
       /\ TDActiveDays(feed, t) \cap TDActiveDays(feed, u) = {}

\* the days on which one of the trips ts of the feed f is active
RECURSIVE TDUnionDays(_, _)
TDUnionDays(f, ts) ==
  IF ts = {} THEN {}
  ELSE LET t == CHOOSE x \in ts : TRUE
       IN TDActiveDays(f, t) \cup TDUnionDays(f, ts \ {t})

\* C16: a call of the adjacent round that merges trips leaves a reference
\* trip whose service is active on exactly the days on which it or one of
\* the trips merged into it was active before the call, and leaves the days
\* of every other surviving trip as they were
C16_AdjUnion ==
  [][(pc = "adj" /\ pc' = "adj" /\ DOMAIN feed'.Trips # DOMAIN feed.Trips) =>
       \E r \in DOMAIN feed'.Trips :
         /\ TDActiveDays(feed', r)
              = TDUnionDays(feed, {r} \cup (DOMAIN feed.Trips \ DOMAIN feed'.Trips))
         /\ \A u \in DOMAIN feed'.Trips \ {r} :
              TDActiveDays(feed', u) = TDActiveDays(feed, u)]_vars

\* a merged service whose range has days on which no merged trip was active
\* and which are excluded by exceptions
C16_Witness ==
  /\ pc = "adj"
  /\ Cardinality(DOMAIN feed.Trips) < Cardinality(DOMAIN feed0.Trips)
  /\ \E r \in DOMAIN feed.Trips :
       LET s == feed.Services[feed.Trips[r].Service]
       IN /\ s.start # NoDate
          /\ \E d \in s.start .. s.end :
               /\ d \in DOMAIN s.exc
               /\ ~s.exc[d]
               /\ \A t \in DOMAIN feed0.Trips : d \notin TDActiveDays(feed0, t)
               /\ \A x \in DOMAIN feed0.Services :
                    d \notin DOMAIN feed0.Services[x].exc
          /\ \E t \in DOMAIN feed0.Trips \ DOMAIN feed.Trips :
               /\ TDActiveDays(feed0, t) # {}
               /\ TDActiveDays(feed0, t) \subseteq TDActiveDays(feed, r)
               /\ ~(TDActiveDays(feed0, t) \subseteq TDActiveDays(feed0, r))

\* C18: no step of TripDuplicateRemover.Run faults
C18_NoFault == pc # "panic"

\* ---------------------------------------------------------------------
\* TripDuplicateRemover: the goroutines of a round
\* ---------------------------------------------------------------------
\* Run with the goroutines of combineAllEqTrips and its three siblings as
\* steps of their own.  loc has, besides the fields of the processor, the
\* position in the call (at), the chunks, the results rets[j] and the
\* position status[j] of goroutine j, the number sem of values in the
\* channel and the number n of values received.

TDCRoutes == [r \in {"r1", "r2"} |-> [Type |-> IF r = "r1" THEN 3 ELSE 2]]

\* the calendars of TDServices that start on day 0 or on day 2
TDCServices == {s \in TDServices : s.start \in {0, 2}}

\* four trips: t1 and t2 make the run "base" on route r1, t3 and t4 make
\* one run on one route; t1 and t3 share a service, and so do t2 and t4
TDCInit ==
  /\ pc = "Run"
  /\ \E sa \in TDCServices, sb \in TDCServices,
        r34 \in {"r1", "r2"}, p34 \in {"base", "midDep"} :
       feed = [Trips |->
                 [t \in {"t1", "t2", "t3", "t4"} |->
                    [Id |-> t,
                     Route |-> IF t \in {"t1", "t2"} THEN "r1" ELSE r34,
                     Service |-> IF t \in {"t1", "t3"} THEN "sa" ELSE "sb",
                     StopTimes |-> TDPattern(IF t \in {"t1", "t2"} THEN "base"
                                             ELSE p34),
                     Frequencies |-> <<>>, Headsign |-> "", Short_name |-> None,
                     Direction_id |-> 0, Block_id |-> None, Shape |-> None,
                     Wheelchair_accessible |-> 0, Bikes_allowed |-> 0]],
               TripsAddFlds |-> <<>>,
               Services |-> [s \in {"sa", "sb"} |-> IF s = "sa" THEN sa ELSE sb],
               Stops |-> TDStops,
               Routes |-> TDCRoutes]
  /\ feed0 = feed
  /\ \E fuzzy \in BOOLEAN, aggressive \in BOOLEAN :
       loc = [serviceRefs |-> [s \in {} |-> 0],
              serviceList |-> [s \in {} |-> <<>>],
              serviceIdC |-> 0, refDate |-> 0, i |-> 0,
              Fuzzy |-> fuzzy, Aggressive |-> aggressive,
              at |-> "call", chunks |-> <<>>, rets |-> <<>>, status |-> <<>>,
              sem |-> 0, n |-> 0]

TDCRounds == {"eq", "contained", "overlap", "adj"}

\* the call of a round up to the last go statement
TDCGo ==
  /\ pc \in TDCRounds
  /\ loc.at = "call"
  /\ pc = "adj" => loc.i <= MaxDayDist
  /\ \E order \in Perms(DOMAIN feed.Trips) :
       loc' = [loc EXCEPT !.at = "wait",
                          !.chunks = getTripChunks(TDm, order),
                          !.rets = [j \in 1 .. HashValues |-> <<>>],
                          !.status = [j \in 1 .. HashValues |-> "run"],
                          !.sem = 0, !.n = 0]
  /\ UNCHANGED <<feed, feed0, pc>>

\* what goroutine j leaves when its loops returned r
TDCFound(j, r) ==
  /\ loc' = [loc EXCEPT !.rets[j] = IF r.panic THEN @ ELSE r.rets,
                        !.status[j] = IF r.panic THEN "panic" ELSE "found"]
  /\ pc' = IF r.panic THEN "panic" ELSE pc

\* the loops of goroutine j over the trips of its chunk
TDCFind(j) ==
  /\ pc \in TDCRounds
  /\ loc.at = "wait"
  /\ loc.status[j] = "run"
  /\ TDCFound(j, findGroups(TDm, pc, loc.i, loc.chunks[j], 1, {}, <<>>))
  /\ UNCHANGED <<feed, feed0>>

\* sem <- empty{} of goroutine j
TDCSend(j) ==
  /\ pc \in TDCRounds
  /\ loc.at = "wait"
  /\ loc.status[j] = "found"
  /\ loc' = [loc EXCEPT !.status[j] = "sent", !.sem = @ + 1]
  /\ UNCHANGED <<feed, feed0, pc>>

\* one <-sem of the loop that waits for the goroutines
TDCReceive ==
  /\ pc \in TDCRounds
  /\ loc.at = "wait"
  /\ loc.sem > 0
  /\ loc' = [loc EXCEPT !.sem = @ - 1, !.n = @ + 1,
                        !.at = IF loc.n + 1 = Len(loc.chunks) THEN "combine"
                               ELSE "wait"]
  /\ UNCHANGED <<feed, feed0, pc>>

\* the groups of rets[j], rets[j + 1], ... in the order of "combine all
\* results"
RECURSIVE TDCAllRets(_, _)
TDCAllRets(rets, j) ==
  IF j > Len(rets) THEN <<>> ELSE rets[j] \o TDCAllRets(rets, j + 1)

\* the processor, the feed and the place in Run after "combine all
\* results" left m2
TDCStore(m2, merged) ==
  /\ feed' = m2.feed
  /\ loc' = [loc EXCEPT !.serviceRefs = m2.serviceRefs,
                        !.serviceList = m2.serviceList,
                        !.serviceIdC = m2.serviceIdC,
                        !.i = IF pc = "overlap" /\ ~merged THEN 1
                              ELSE IF pc = "adj" /\ ~merged THEN @ + 1 ELSE @,
                        !.at = "call", !.chunks = <<>>, !.rets = <<>>,
                        !.status = <<>>, !.sem = 0, !.n = 0]
  /\ pc' = IF merged THEN pc
           ELSE IF pc = "eq" THEN "contained"
           ELSE IF pc = "contained" THEN "overlap"
           ELSE "adj"
  /\ UNCHANGED feed0

\* "combine all results" and the return to the loop of Run
TDCCombine ==
  /\ pc \in TDCRounds
  /\ loc.at = "combine"
  /\ TDCStore(combineGroups(TDm, pc, TDCAllRets(loc.rets, 1), 1),
              \E j \in 1 .. Len(loc.rets) : Len(loc.rets[j]) > 0)

TDCNext ==
  \/ TDRun
  \/ TDCGo
  \/ \E j \in 1 .. HashValues : TDCFind(j)
  \/ \E j \in 1 .. HashValues : TDCSend(j)
  \/ TDCReceive
  \/ TDCCombine
  \/ TDReturn

SpecTDC == TDCInit /\ [][TDCNext]_vars

\* the trips of a group
TDCTripsOf(g) == {g[k].Trip : k \in 1 .. Len(g)}

\* no trip is twice in a group of rets or in two groups of rets
TDCDisjoint(rets) ==
  /\ \A j \in 1 .. Len(rets) : \A k \in 1 .. Len(rets[j]) :
       Cardinality(TDCTripsOf(rets[j][k])) = Len(rets[j][k])
  /\ \A j1 \in 1 .. Len(rets), j2 \in 1 .. Len(rets) :
       \A k1 \in 1 .. Len(rets[j1]), k2 \in 1 .. Len(rets[j2]) :
         (j1 # j2 \/ k1 # k2)
           => TDCTripsOf(rets[j1][k1]) \cap TDCTripsOf(rets[j2][k2]) = {}

\* C19: the groups the goroutines of a round have found are pairwise
\* disjoint, and the feed changes only in "combine all results", after
\* every goroutine has sent and the main thread has received all
C19_GroupsDisjoint ==
  [][/\ TDCDisjoint(loc'.rets)
     /\ feed' # feed =>
          /\ loc.at = "combine"
          /\ loc.n = Len(loc.chunks)
          /\ \A j \in 1 .. Len(loc.status) : loc.status[j] = "sent"]_vars

\* all goroutines have finished and two of them have found a group each
C19_Witness ==
  /\ loc.at = "combine"
  /\ \E j1 \in 1 .. Len(loc.rets), j2 \in 1 .. Len(loc.rets) :
       /\ j1 # j2
       /\ Len(loc.rets[j1]) > 0
       /\ Len(loc.rets[j2]) > 0

\* ---------------------------------------------------------------------
\* tripAttrEq on pairs of trips
\* ---------------------------------------------------------------------

\* the trip "a": the first value of every attribute
TAETrip ==
  [Id |-> "a", Route |-> "r1", Service |-> "sa", StopTimes |-> <<>>,
   Frequencies |-> <<>>, Headsign |-> "", Short_name |-> None,
   Direction_id |-> 0, Block_id |-> None, Shape |-> None,
   Wheelchair_accessible |-> 0, Bikes_allowed |-> 0]

\* the routes: r1 and r2 of type 3, r700 of the extended type 700
TAERoutes ==
  [r \in {"r1", "r2", "r700"} |-> [Type |-> IF r = "r700" THEN 700 ELSE 3]]

\* the trip "b" differs from "a" in any of the attributes; "a" has or has
\* not a short name and a shape
TAEInit ==
  /\ pc = "tripAttrEq"
  /\ \E fuzzy \in BOOLEAN, route \in {"r1", "r2", "r700"},
        freq \in {<<>>, <<"f">>}, headsign \in {"", "h"},
        aShort \in {None, "x"}, bShort \in {None, "x"},
        direction \in {0, 1}, block \in {None, "b"},
        aShape \in {None, "s1"}, bShape \in {None, "s1", "s2"},
        wheelchair \in {0, 1}, bikes \in {0, 1}, col \in {"", "v"} :
       /\ feed = [Trips |->
                    [t \in {"a", "b"} |->
                       IF t = "a"
                       THEN [TAETrip EXCEPT !.Short_name = aShort,
                                            !.Shape = aShape]
                       ELSE [TAETrip EXCEPT !.Id = "b", !.Route = route,
                                            !.Frequencies = freq,
                                            !.Headsign = headsign,
                                            !.Short_name = bShort,
                                            !.Direction_id = direction,
                                            !.Block_id = block,
                                            !.Shape = bShape,
                                            !.Wheelchair_accessible = wheelchair,
                                            !.Bikes_allowed = bikes]],
                  Routes |-> TAERoutes,
                  TripsAddFlds |->
                    [fld \in {"col"} |->
                       IF col = "" THEN <<>> ELSE [t \in {"b"} |-> col]]]
       /\ loc = [Fuzzy |-> fuzzy, ret |-> FALSE]
  /\ feed0 = feed

\* m.tripAttrEq(a, b, feed)
TAECall ==
  /\ pc = "tripAttrEq"
  /\ loc' = [loc EXCEPT !.ret = tripAttrEq([feed |-> feed, Fuzzy |-> loc.Fuzzy],
                                           feed.Trips["a"], feed.Trips["b"])]
  /\ pc' = "done"
  /\ UNCHANGED <<feed, feed0>>

TAENext == TAECall

SpecTAE == TAEInit /\ [][TAENext]_vars

\* C17: two trips that tripAttrEq calls equal have the same route, or in
\* fuzzy mode routes of the same type, and the same headsign, short name,
\* direction, block, wheelchair accessibility, bikes allowed and shape
C17_AttrEqOnlyIfAllMatch ==
  (pc = "done" /\ loc.ret) =>
    LET a == feed.Trips["a"]
        b == feed.Trips["b"]
    IN /\ IF loc.Fuzzy
          THEN typeComp(feed.Routes[a.Route].Type, feed.Routes[b.Route].Type)
          ELSE a.Route = b.Route
       /\ a.Headsign = b.Headsign
       /\ a.Short_name = b.Short_name
       /\ a.Direction_id = b.Direction_id
       /\ a.Block_id = b.Block_id
       /\ a.Wheelchair_accessible = b.Wheelchair_accessible
       /\ a.Bikes_allowed = b.Bikes_allowed
       /\ a.Shape = b.Shape


\* ---------------------------------------------------------------------
\* ServiceMinimizer: optimality of the cover
\* ---------------------------------------------------------------------

\* the exceptions a calendar with the weekdays of bitmap bm and the range
\* first .. last needs to stand for service s, the range being cropped to
\* the active dates of s as updateService crops it
pmNeeded(s, bm, first, last) ==
  LET dRange == GetDateRange(s)
  IN Cardinality({d \in dRange.Start .. dRange.End :
                    IsActiveOn(s, d) #
                      (d >= first /\ d <= last /\ hasBit(bm, d % 7))})

\* the week-aligned ranges the loops over a and b of perfectMinimize visit
pmWeekSpans(s) ==
  LET dRange == GetDateRange(s)
      startTimeAm == dRange.Start - (dRange.Start % 7)
      endTimeAm == dRange.End + (6 - (dRange.End % 7))
  IN {sp \in (startTimeAm .. endTimeAm) \X (startTimeAm .. endTimeAm) :
        /\ sp[1] % 7 = 0
        /\ sp[2] % 7 = 6
        /\ sp[2] > sp[1]}

\* C21: when the service minimizer has run, a service that had at least one
\* exception has no more exceptions than any non-zero weekday bitmap with
\* any week-aligned calendar range needs to stand for its active dates
C21_OptimalCover ==
  pc = "done" =>
    \A id \in DOMAIN feed0.Services :
      Cardinality(DOMAIN feed0.Services[id].exc) > 0 =>
        \A bm \in 1 .. 127 :
          \A sp \in pmWeekSpans(feed0.Services[id]) :
            Cardinality(DOMAIN feed.Services[id].exc)
              <= pmNeeded(feed0.Services[id], bm, sp[1], sp[2])

\* C21 for the services that leave the minimizer with a weekday map, that
\* is, whose chosen range was not cropped to a single date
C21_OptimalCoverOfRanges ==
  pc = "done" =>
    \A id \in DOMAIN feed0.Services :
      /\ Cardinality(DOMAIN feed0.Services[id].exc) > 0
      /\ feed.Services[id].daymap # {}
      => \A bm \in 1 .. 127 :
           \A sp \in pmWeekSpans(feed0.Services[id]) :
             Cardinality(DOMAIN feed.Services[id].exc)
               <= pmNeeded(feed0.Services[id], bm, sp[1], sp[2])


\* ---------------------------------------------------------------------
\* FrequencyMinimizer: the cover
\* ---------------------------------------------------------------------

\* the calls of getCover Run makes for the trips it has still to visit:
\* the sorted wrappers together with a cover getCover can return for them
FMCovers ==
  IF pc # "trips" THEN {}
  ELSE UNION {
         LET W == getTimeIndependentEquivalentTrips(id, FMTripsSl(id))
         IN IF Cardinality(W) < 2 THEN {}
            ELSE UNION {UNION {{[id |-> id, eqs |-> eqs, cover |-> c] :
                                  c \in getCover(eqs, ov)} :
                               ov \in BOOLEAN} :
                        eqs \in sortedWrappers(W)} :
         id \in {t \in (DOMAIN feed.Trips) \ (loc.visited \cup loc.processed) :
                   Len(feed.Trips[t].StopTimes) # 0}}

\* the time the trip of wrapper w departs from its first stop: a trip
\* expanded from a frequency row departs at the time of the expansion
wrapperDeparture(id, w) ==
  IF w.sourceFreq # NilFreq THEN w.t
  ELSE FMTripsSl(id)[w.Trip].StopTimes[1].Departure_time

\* every wrapper is in exactly one progression of the cover
coverIsPartition(x) ==
  /\ \A i \in 1 .. Len(x.eqs) :
       Cardinality({n \in 1 .. Len(x.cover) :
                      i \in Range(x.cover[n].matches)}) = 1
  /\ \A n \in 1 .. Len(x.cover) :
       /\ Range(x.cover[n].matches) \subseteq 1 .. Len(x.eqs)
       /\ Cardinality(Range(x.cover[n].matches)) = Len(x.cover[n].matches)

\* the headway of every progression of two or more members is within the
\* bounds and is the gap of two of the wrappers
coverHeadwaysObserved(x) ==
  \A n \in 1 .. Len(x.cover) :
    Len(x.cover[n].matches) >= 2 =>
      /\ x.cover[n].headways >= MinHeadway
      /\ x.cover[n].headways <= MaxHeadway
      /\ \E i, j \in 1 .. Len(x.eqs) :
           i < j /\ x.eqs[j].t - x.eqs[i].t = x.cover[n].headways

\* C22: every cover getCover returns is a partition of the trips of the
\* equivalence class into progressions, the first-stop departure times of
\* consecutive members of a progression differ by the headway of the
\* progression, and the headway is within [MinHeadway, MaxHeadway] and is
\* the gap of two trips of the class
C22_CoverIsPartition ==
  \A x \in FMCovers :
    /\ coverIsPartition(x)
    /\ coverHeadwaysObserved(x)
    /\ \A n \in 1 .. Len(x.cover) :
         \A k \in 1 .. Len(x.cover[n].matches) - 1 :
           wrapperDeparture(x.id, x.eqs[x.cover[n].matches[k + 1]])
             - wrapperDeparture(x.id, x.eqs[x.cover[n].matches[k]])
             = x.cover[n].headways


\* ---------------------------------------------------------------------
\* ServiceDuplicateRemover: completeness
\* ---------------------------------------------------------------------

\* C23: when the service duplicate remover has run, no two services of the
\* feed are active on exactly the same dates
C23_NoEqualServicesLeft ==
  pc = "done" =>
    \A a, b \in DOMAIN feed.Services :
      a # b =>
        \E d \in 0 .. (MaxDay + 7) :
          IsActiveOn(feed.Services[a], d) # IsActiveOn(feed.Services[b], d)

\* the run has merged two services that stand for the same dates in
\* different ways and were dealt into different chunks
C23_Witness ==
  /\ pc = "done"
  /\ \E a, b \in DOMAIN feed0.Services :
       /\ a # b
       /\ feed0.Services[a] # feed0.Services[b]
       /\ feed0.Services[a].exc # feed0.Services[b].exc
       /\ \A d \in 0 .. (MaxDay + 7) :
            IsActiveOn(feed0.Services[a], d)
              <=> IsActiveOn(feed0.Services[b], d)
       /\ \E h \in DOMAIN loc.chunks :
            \E c1, c2 \in DOMAIN loc.chunks[h] :
              /\ c1 # c2
              /\ a \in Range(loc.chunks[h][c1])
              /\ b \in Range(loc.chunks[h][c2])
       /\ a \in DOMAIN feed.Services
       /\ b \notin DOMAIN feed.Services


\* ---------------------------------------------------------------------
\* RouteDuplicateRemover: the reference route
\* ---------------------------------------------------------------------

\* the route ids of the feeds in the order of Go's string comparison
RDRIdOrder == <<"a:1", "r1", "r3">>

routeIdLess(a, b) ==
  \E i, j \in 1 .. Len(RDRIdOrder) :
    i < j /\ RDRIdOrder[i] = a /\ RDRIdOrder[j] = b

\* the routes of the input feed that were merged into route r: every route
\* of the input feed has one trip
RDRGroup(r) ==
  {feed0.Trips[t].Route : t \in {u \in DOMAIN feed.Trips :
                                   feed.Trips[u].Route = r}}

\* C24 as stated: when the route duplicate remover has run, the route
\* that is left of a group of merged routes has more colons in its id than
\* every other route of the group, or as many and a shorter id, or as many
\* and an id of the same length that is the smaller string
C24_RefByColons ==
  pc = "done" =>
    \A r \in DOMAIN feed.Routes :
      \A x \in RDRGroup(r) \ {r} :
        \/ numColons(r) > numColons(x)
        \/ numColons(r) = numColons(x) /\ Len(r) < Len(x)
        \/ numColons(r) = numColons(x) /\ Len(r) = Len(x)
             /\ routeIdLess(r, x)

\* C24, amended: when the route duplicate remover has run, the route that
\* is left of a group of merged routes has an id that is no longer than
\* the id of any other route of the group
C24_RefIsShortest ==
  pc = "done" =>
    \A r \in DOMAIN feed.Routes :
      \A x \in RDRGroup(r) : Len(r) <= Len(x)

\* a route with a colon in its id has been merged into a route with a
\* shorter id that has none
C24_Witness ==
  /\ pc = "done"
  /\ \E r \in DOMAIN feed.Routes :
       /\ numColons(r) = 0
       /\ "a:1" \in RDRGroup(r)
       /\ Len(r) < Len("a:1")


\* ---------------------------------------------------------------------
\* OrphanRemover: trips and entrances
\* ---------------------------------------------------------------------

\* a trip without stop times and frequency rows
ORTripIsEmpty(t) == Len(t.StopTimes) = 0 /\ t.Frequencies = 0

\* a trip with stop times that allows no pickup and no drop-off at any of
\* them
ORTripIsClosed(t) ==
  /\ Len(t.StopTimes) > 0
  /\ \A i \in DOMAIN t.StopTimes :
       t.StopTimes[i].Pickup_type = 1 /\ t.StopTimes[i].Drop_off_type = 1

\* C29: from the end of the first step of the orphan sweep on, before the
\* transfers, stops, shapes, services, routes and agencies are swept, the
\* feed has no trip that has neither stop times nor frequencies and no
\* trip that has no pickup and no drop-off at any of its stops
C29_TripsDeletedFirst ==
  pc # "removeTripOrphans" =>
    \A t \in DOMAIN feed0.Trips :
      ORTripIsEmpty(feed0.Trips[t]) \/ ORTripIsClosed(feed0.Trips[t])
        => t \notin DOMAIN feed.Trips

\* C30: no step of the orphan sweep removes an entrance (a stop of
\* location type 2): every entrance of the input feed is in the feed
\* after the first and after the second stop pass
C30_EntrancesKept ==
  \A x \in DOMAIN feed0.Stops :
    feed0.Stops[x].Location_type = 2 => x \in DOMAIN feed.Stops


\* ---------------------------------------------------------------------
\* ShapeRemeasurer and ShapeMinimizer
\* ---------------------------------------------------------------------
\* A shape point is [X, Y, Dist_traveled, Sequence].  X and Y are the
\* position of the point in metres on a plane, the web mercator
\* coordinates latLngToWebMerc computes from Lat and Lon; successive
\* points of a shape differ in one of the two, so that the distance
\* between them is a whole number.  Dist_traveled is NaN for a point
\* without a measurement; the measurements of the feeds are 0 and 360,
\* which all the segment lengths and counts of the model divide.

NaN == 0 - 1

HasDistanceTraveled(p) == p.Dist_traveled # NaN

SHAbs(n) == IF n < 0 THEN 0 - n ELSE n

\* the distance between two successive points of a shape
distP(a, b) == SHAbs(a.X - b.X) + SHAbs(a.Y - b.Y)

\* remeasureBetween: d is the distance covered so far
RECURSIVE remeasureBetweenLoop(_, _, _, _, _, _)
remeasureBetweenLoop(i, end, mPUnit, lastMeasure, Points, d) ==
  IF i >= end THEN Points
  ELSE LET d2 == IF i > 0 THEN d + distP(Points[i], Points[i + 1]) ELSE d
       IN remeasureBetweenLoop(
            i + 1, end, mPUnit, lastMeasure,
            [Points EXCEPT ![i + 1].Dist_traveled = lastMeasure + d2 * mPUnit],
            d2)

\* Points[i + 1] is the Go element Points[i]
remeasureBetween(i, end, mPUnit, lastMeasure, Points) ==
  remeasureBetweenLoop(i, end, mPUnit, lastMeasure, Points, 0)

\* remeasureKnown: the loop over the points; st holds the local variables
RECURSIVE remeasureKnownLoop(_, _)
remeasureKnownLoop(i, st) ==
  IF i >= Len(st.Points) THEN st
  ELSE LET d == IF i > 0
                THEN st.d + distP(st.Points[i], st.Points[i + 1]) ELSE st.d
           p == st.Points[i + 1]
           local == st.hasLast /\ d > 0
           localM == IF local THEN (p.Dist_traveled - st.lastM) \div d ELSE 0
       IN remeasureKnownLoop(
            i + 1,
            IF HasDistanceTraveled(p)
            THEN [Points |-> IF local /\ i - st.lastMIndex > 1
                             THEN remeasureBetween(st.lastMIndex + 1, i,
                                                   localM, st.lastM, st.Points)
                             ELSE st.Points,
                  c |-> IF local THEN st.c + 1 ELSE st.c,
                  cc |-> st.cc + 1,
                  m |-> st.m + localM,
                  lastMIndex |-> i,
                  lastM |-> p.Dist_traveled,
                  hasLast |-> TRUE,
                  d |-> 0]
            ELSE [st EXCEPT !.d = d])

\* the shape with the runs between two measurements filled, the average
\* measure per metre and whether the shape has no measurement at all
remeasureKnown(Points) ==
  LET st == remeasureKnownLoop(0, [Points |-> Points, c |-> 0, cc |-> 0,
                                   m |-> 0, lastMIndex |-> 0 - 1,
                                   lastM |-> 0 - 1, hasLast |-> FALSE,
                                   d |-> 0])
  IN [Points |-> st.Points,
      avgMeasure |-> IF st.c = 0 THEN 0 ELSE st.m \div st.c,
      noMeasurements |-> st.cc = 0]

RECURSIVE remeasureUnknownLoop(_, _, _, _, _)
remeasureUnknownLoop(i, Points, avgMeasure, lastUMIndex, lastM) ==
  IF i > Len(Points) THEN Points
  ELSE IF i = Len(Points) \/ HasDistanceTraveled(Points[i + 1])
  THEN remeasureUnknownLoop(
         i + 1,
         IF lastUMIndex > 0 - 1
         THEN remeasureBetween(lastUMIndex, i, avgMeasure, lastM, Points)
         ELSE Points,
         avgMeasure, 0 - 1,
         IF i < Len(Points) THEN Points[i + 1].Dist_traveled ELSE lastM)
  ELSE remeasureUnknownLoop(i + 1, Points, avgMeasure,
                            IF lastUMIndex = 0 - 1 THEN i ELSE lastUMIndex,
                            lastM)

remeasureUnknown(Points, avgMeasure) ==
  remeasureUnknownLoop(0, Points, avgMeasure, 0 - 1, 0)

\* remeasure with the known runs already filled: k is remeasureKnown(Points)
remeasureWith(k, Force) ==
  IF k.noMeasurements THEN remeasureUnknown(k.Points, 1)
  ELSE IF k.avgMeasure # 0 THEN remeasureUnknown(k.Points, k.avgMeasure)
  ELSE IF Force THEN remeasureUnknown(k.Points, 1)
  ELSE [i \in DOMAIN k.Points |-> [k.Points[i] EXCEPT !.Dist_traveled = NaN]]

remeasure(Points, Force) == remeasureWith(remeasureKnown(Points), Force)

\* ShapeMinimizer{Epsilon: 1.0}
Epsilon == 1

SHDist2(a, b) == (a.X - b.X) * (a.X - b.X) + (a.Y - b.Y) * (a.Y - b.Y)

\* the square of perpendicularDist is perpendicularNum divided by
\* perpendicularDen, which is the same for every point p
perpendicularDen(a, b) == IF SHDist2(a, b) = 0 THEN 1 ELSE SHDist2(a, b)

perpendicularNum(p, a, b) ==
  LET d == SHDist2(a, b)
      t == (p.X - a.X) * (b.X - a.X) + (p.Y - a.Y) * (b.Y - a.Y)
  IN IF d = 0 THEN SHDist2(p, a)
     ELSE IF t < 0 THEN SHDist2(p, a) * d
     ELSE IF t > d THEN SHDist2(p, b) * d
     ELSE SHDist2(p, a) * d - t * t

\* a variant of minimizeShape that keeps the two ends only
minimizeShapeEnds(points, e) == <<points[1], points[Len(points)]>>

RECURSIVE minimizeShape(_, _)
minimizeShape(points, e) ==
  LET n == Len(points)
      num(i) == perpendicularNum(points[i], points[1], points[n])
      maxD == Max({num(i) : i \in 2 .. n - 1} \cup {0})
      maxI == Min({i \in 2 .. n - 1 : num(i) = maxD} \cup {n})
  IN IF maxD > e * e * perpendicularDen(points[1], points[n])
     THEN LET retA == minimizeShape(SubSeq(points, 1, maxI), e)
              retB == minimizeShape(SubSeq(points, maxI, n), e)
          IN SubSeq(retA, 1, Len(retA) - 1) \o retB
     ELSE <<points[1], points[n]>>

\* the positions of the shape points of the feeds
SHPositions == (0 .. 2) \X (0 .. 1)

\* the paths of one to four positions whose successive positions are
\* equal or differ in one coordinate
SHPaths ==
  {ps \in UNION {[1 .. n -> SHPositions] : n \in 1 .. 4} :
     \A i \in 1 .. Len(ps) - 1 : ps[i][1] = ps[i + 1][1]
                                   \/ ps[i][2] = ps[i + 1][2]}

\* the measurements of the points of a path: none, 0 or 360 for every
\* point, and never less than an earlier measurement of the shape
SHMeasures(n) ==
  {ms \in [1 .. n -> {NaN, 0, 360}] :
     \A i, j \in 1 .. n :
       i < j /\ ms[i] # NaN /\ ms[j] # NaN => ms[i] <= ms[j]}

SHPoints(ps, ms) ==
  [i \in 1 .. Len(ps) |->
     [X |-> ps[i][1], Y |-> ps[i][2], Dist_traveled |-> ms[i],
      Sequence |-> i - 1]]

\* One shape and one trip on it, with one stop time that is measured
\* behind the end of the shape.  loc holds the flags of the command line:
\* Force is set for --remeasure-stop-times, and the ShapeMinimizer
\* follows the ShapeRemeasurer if minimize is set.
SHInit ==
  /\ \E ps \in SHPaths :
     \E ms \in SHMeasures(Len(ps)) :
       feed = [Shapes |-> [id \in {"sh1"} |-> [Points |-> SHPoints(ps, ms)]],
               Trips |-> [t \in {"t1"} |->
                            [Shape |-> "sh1",
                             StopTimes |-> <<[Shape_dist_traveled |-> 1000]>>]]]
  /\ feed0 = feed
  /\ pc = "remeasure"
  /\ \E force, minimize \in BOOLEAN :
       loc = [Force |-> force, minimize |-> minimize, todo |-> {"sh1"}]

\* ShapeRemeasurer.Run: one iteration of the loop of a goroutine
SHRemeasure(id) ==
  /\ pc = "remeasure"
  /\ id \in loc.todo
  /\ feed' = [feed EXCEPT !.Shapes[id].Points = remeasure(@, loc.Force)]
  /\ loc' = [loc EXCEPT !.todo = @ \ {id}]
  /\ UNCHANGED <<feed0, pc>>

\* the stop time st of a trip on a shape with the points Points after the
\* loop that fixes small inconsistencies
SHFixed(st, Points) ==
  IF /\ st.Shape_dist_traveled # NaN
     /\ HasDistanceTraveled(Points[Len(Points)])
     /\ st.Shape_dist_traveled > Points[Len(Points)].Dist_traveled
  THEN [st EXCEPT !.Shape_dist_traveled = Points[Len(Points)].Dist_traveled]
  ELSE st

\* ShapeRemeasurer.Run from the end of the goroutines on
SHRemeasureFix ==
  /\ pc = "remeasure"
  /\ loc.todo = {}
  /\ feed' = [feed EXCEPT
                !.Trips = [t \in DOMAIN @ |->
                             [@[t] EXCEPT
                                !.StopTimes =
                                   [i \in DOMAIN @ |->
                                      SHFixed(@[i],
                                        feed.Shapes[feed.Trips[t].Shape]
                                          .Points)]]]]
  /\ pc' = IF loc.minimize THEN "minimize" ELSE "done"
  /\ loc' = [loc EXCEPT !.todo = DOMAIN feed.Shapes]
  /\ UNCHANGED feed0

\* the points with Sequence set to their index
SHRenumber(Points) ==
  [i \in DOMAIN Points |-> [Points[i] EXCEPT !.Sequence = i - 1]]

\* ShapeMinimizer.Run: one iteration of the loop of a goroutine
SHMinimize(id) ==
  /\ pc = "minimize"
  /\ id \in loc.todo
  /\ feed' = [feed EXCEPT !.Shapes[id].Points =
                SHRenumber(minimizeShape(@, Epsilon))]
  /\ loc' = [loc EXCEPT !.todo = @ \ {id}]
  /\ UNCHANGED <<feed0, pc>>

\* ShapeMinimizer.Run from the end of the goroutines on
SHReturn ==
  /\ pc = "minimize"
  /\ loc.todo = {}
  /\ pc' = "done"
  /\ UNCHANGED <<feed, feed0, loc>>

SHNext ==
  \/ \E id \in {"sh1"} : SHRemeasure(id)
  \/ SHRemeasureFix
  \/ \E id \in {"sh1"} : SHMinimize(id)
  \/ SHReturn

SpecSH == SHInit /\ [][SHNext]_vars

\* the measurements of the points do not decrease along the shape
SHMonotone(Points) ==
  \A i, j \in DOMAIN Points :
    /\ i < j
    /\ HasDistanceTraveled(Points[i])
    /\ HasDistanceTraveled(Points[j])
    => Points[i].Dist_traveled <= Points[j].Dist_traveled

\* C25: when the shape remeasurer has run, and when the shape minimizer
\* has run after it, shape_dist_traveled does not decrease along the
\* points of any shape, whichever points of the input have a measurement
C25_DistancesMonotone ==
  pc \in {"minimize", "done"} =>
    \A id \in DOMAIN feed.Shapes : SHMonotone(feed.Shapes[id].Points)

\* the points of shape id when the shape minimizer starts
SHBefore(id) == remeasure(feed0.Shapes[id].Points, loc.Force)

SHSamePoint(p, q) ==
  p.X = q.X /\ p.Y = q.Y /\ p.Dist_traveled = q.Dist_traveled

\* res is made of points of orig in their order, each taken once, the
\* first and the last among them
SHIsSubsequence(res, orig) ==
  \E idx \in [1 .. Len(res) -> 1 .. Len(orig)] :
    /\ \A k \in 1 .. Len(res) - 1 : idx[k] < idx[k + 1]
    /\ idx[1] = 1
    /\ idx[Len(res)] = Len(orig)
    /\ \A k \in 1 .. Len(res) : SHSamePoint(res[k], orig[idx[k]])

\* C26: when the shape minimizer has run, the points of every shape are a
\* subsequence of the points the shape had before: in the same order, none
\* added, none twice, the first and the last point kept; shapes of one
\* point included
C26_SurvivorsAreSubsequence ==
  pc = "done" /\ loc.minimize =>
    \A id \in DOMAIN feed.Shapes :
      SHIsSubsequence(feed.Shapes[id].Points, SHBefore(id))

\* point p is within Epsilon of one of the segments of the polyline
SHNear(p, Points) ==
  \E k \in 1 .. Len(Points) - 1 :
    perpendicularNum(p, Points[k], Points[k + 1])
      <= Epsilon * Epsilon * perpendicularDen(Points[k], Points[k + 1])

\* C27: when the shape minimizer has run, every point a shape had before
\* is within Epsilon = 1 m of the polyline of the points that are left
C27_RemovedPointsNear ==
  pc = "done" /\ loc.minimize =>
    \A id \in DOMAIN feed.Shapes :
      \A i \in DOMAIN SHBefore(id) :
        SHNear(SHBefore(id)[i], feed.Shapes[id].Points)

\* the minimizer has kept a point between the ends of a shape and has
\* removed a point that is not on the polyline that is left
C27_Witness ==
  /\ pc = "done"
  /\ loc.minimize
  /\ \E id \in DOMAIN feed.Shapes :
       /\ Len(feed.Shapes[id].Points) >= 3
       /\ \E i \in DOMAIN SHBefore(id) :
            \A k \in 1 .. Len(feed.Shapes[id].Points) - 1 :
              perpendicularNum(SHBefore(id)[i], feed.Shapes[id].Points[k],
                               feed.Shapes[id].Points[k + 1]) > 0

\* ---------------------------------------------------------------------
\* StopReclusterer and its priority queue
\* ---------------------------------------------------------------------
\* Similarities are counted in units of 1/24, so that the average of up to
\* four stop similarities out of {0, 1/2, 1} is an integer.  Cluster ids
\* and heap positions are counted from 0 as in the code; the sequences
\* Items and Pqids hold position i at index i + 1.

\* the stops of the feed: stops without parent station, which make the
\* single-element cluster c out of SRStopIds[c + 1]
SRStopIds == <<"a", "b", "c">>

SRClusterIds == 0 .. Len(SRStopIds) - 1

SRPairs == {{x, y} : x, y \in Range(SRStopIds)} \ {{x} : x \in Range(SRStopIds)}

\* two stops whose cells are further apart than the search radius of the
\* grid; their similarity is 0
SRFar == 0 - 1

SRSimis == {SRFar, 0, 12, 24}

\* the merge threshold 0.5
SRThreshold == 12

SRParentId == [a |-> "par::a", b |-> "par::b", c |-> "par::c"]

\* an empty slot of Items
SRNil == [value |-> 0 - 1, priority |-> 0]

\* StopReclusterer.stopSimi, tabulated per pair of stops
stopSimi(tab, a, b) == IF tab[{a, b}] = SRFar THEN 0 ELSE tab[{a, b}]

RECURSIVE SRSumSimi(_, _, _, _)
SRSumSimi(tab, a, b, todo) ==
  IF todo = {} THEN 0
  ELSE LET p == CHOOSE x \in todo : TRUE
       IN stopSimi(tab, a[p[1]], b[p[2]]) + SRSumSimi(tab, a, b, todo \ {p})

\* StopReclusterer.clusterSimi of two clusters given by their stops
clusterSimi(tab, a, b) ==
  LET c == Len(a) * Len(b)
  IN IF c = 0 THEN 0
     ELSE SRSumSimi(tab, a, b, (1 .. Len(a)) \X (1 .. Len(b))) \div c

\* StopClusterIdx.GetNeighbors: the grid holds every cluster id in the cell
\* of the stop the cluster started with, and is never updated
GetNeighbors(tab, excludeCid, c) ==
  {cid \in SRClusterIds :
     /\ cid # excludeCid
     /\ \E i \in DOMAIN c :
          \/ c[i] = SRStopIds[cid + 1]
          \/ tab[{c[i], SRStopIds[cid + 1]}] # SRFar}

\* StopReclusterer.getNearestClusters, as a set (the list is in map order)
getNearestClusters(tab, cId, clusters) ==
  {[id |-> ncId, simi |-> clusterSimi(tab, clusters[cId], clusters[ncId])] :
     ncId \in GetNeighbors(tab, cId, clusters[cId])}

\* the outcomes of sort.Sort(BySimi(..)) on a list with the elements S
SRSorted(S) ==
  {q \in Perms(S) : \A i \in 1 .. Len(q) - 1 : q[i].simi <= q[i + 1].simi}

\* NewPriorityQueue
NewPriorityQueue(len) ==
  [Items |-> [i \in 1 .. len |-> SRNil], Pqids |-> [i \in 1 .. len |-> 0]]

\* PriorityQueue.Less
Less(pq, i, j) == pq.Items[i + 1].priority > pq.Items[j + 1].priority

\* PriorityQueue.Swap
Swap(pq, i, j) ==
  LET Items == [pq.Items EXCEPT ![i + 1] = pq.Items[j + 1],
                                ![j + 1] = pq.Items[i + 1]]
      Pqids1 == [pq.Pqids EXCEPT ![Items[i + 1].value + 1] = i]
  IN [Items |-> Items,
      Pqids |-> [Pqids1 EXCEPT ![Items[j + 1].value + 1] = j]]

\* PriorityQueue.Push
Push(pq, item) ==
  [Items |-> Append(pq.Items, item), Pqids |-> Append(pq.Pqids, item.value)]

\* PriorityQueue.Pop: the queue without its last item, and that item
Pop(pq) ==
  [pq |-> [pq EXCEPT !.Items = SubSeq(pq.Items, 1, Len(pq.Items) - 1)],
   item |-> pq.Items[Len(pq.Items)]]

\* container/heap: up
RECURSIVE up(_, _)
up(pq, j) ==
  LET i == IF j = 0 THEN 0 ELSE (j - 1) \div 2
  IN IF i = j \/ ~Less(pq, j, i) THEN pq ELSE up(Swap(pq, i, j), i)

\* container/heap: down; i is the position the item ends at
RECURSIVE down(_, _, _)
down(pq, i, n) ==
  LET j1 == 2 * i + 1
      j == IF j1 + 1 < n /\ Less(pq, j1 + 1, j1) THEN j1 + 1 ELSE j1
  IN IF j1 >= n THEN [pq |-> pq, i |-> i]
     ELSE IF ~Less(pq, j, i) THEN [pq |-> pq, i |-> i]
     ELSE down(Swap(pq, i, j), j, n)

\* container/heap: Init
RECURSIVE heapInitLoop(_, _)
heapInitLoop(pq, i) ==
  IF i < 0 THEN pq
  ELSE heapInitLoop(down(pq, i, Len(pq.Items)).pq, i - 1)

heapInit(pq) == heapInitLoop(pq, (Len(pq.Items) \div 2) - 1)

\* container/heap: Push
heapPush(pq, item) ==
  LET pq1 == Push(pq, item) IN up(pq1, Len(pq1.Items) - 1)

\* container/heap: Pop
heapPop(pq) ==
  LET n == Len(pq.Items) - 1 IN Pop(down(Swap(pq, 0, n), 0, n).pq)

\* container/heap: Fix
heapFix(pq, i) ==
  LET d == down(pq, i, Len(pq.Items))
  IN IF d.i > i THEN d.pq ELSE up(pq, i)

\* the test "cluster was deleted" of Run, updateNeighIn and updateNeighs
SRDeleted(pq, cId) == pq.Pqids[cId + 1] >= Len(pq.Items)

\* StopReclusterer.updateNeighIn: the possible outcomes [neighs, pq]
updateNeighIn(tab, cId, nId, clusters, neighs, pq) ==
  LET ns == neighs[cId]
      idxs == {i \in DOMAIN ns : ns[i].id = nId}
  IN IF SRDeleted(pq, cId) \/ ns = <<>> \/ idxs = {}
     THEN {[neighs |-> neighs, pq |-> pq]}
     ELSE LET oldbestsimi == ns[Len(ns)].simi
              i == Min(idxs)
              neigh == ns[i]
              ns1 == [ns EXCEPT
                        ![i].simi = clusterSimi(tab, clusters[cId],
                                                clusters[nId])]
              unsorted ==
                \/ i # Len(ns1) /\ ns1[i + 1].simi < ns1[i].simi
                \/ i # 1 /\ ns1[i - 1].simi > ns1[i].simi
              h == pq.Pqids[cId + 1]
          IN {[neighs |-> [neighs EXCEPT ![cId] = s],
               pq |-> IF \/ neigh.simi > oldbestsimi
                         \/ i = Len(s) /\ neigh.simi < oldbestsimi
                      THEN heapFix([pq EXCEPT !.Items[h + 1].priority =
                                                 s[Len(s)].simi], h)
                      ELSE pq] :
                s \in IF unsorted THEN SRSorted(Range(ns1)) ELSE {ns1}}

\* StopReclusterer.updateNeighs: the possible outcomes [neighs, pq]
updateNeighs(tab, cId, clusters, neighs, pq) ==
  IF SRDeleted(pq, cId) THEN {[neighs |-> neighs, pq |-> pq]}
  ELSE LET oldbestsimi == IF neighs[cId] # <<>>
                          THEN neighs[cId][Len(neighs[cId])].simi ELSE 0
           h == pq.Pqids[cId + 1]
       IN {LET priority == IF s = <<>> THEN 0 ELSE s[Len(s)].simi
               pq1 == [pq EXCEPT !.Items[h + 1].priority = priority]
           IN [neighs |-> [neighs EXCEPT ![cId] = s],
               pq |-> IF priority # oldbestsimi THEN heapFix(pq1, h)
                      ELSE pq1] :
             s \in SRSorted(getNearestClusters(tab, cId, clusters))}

\* the feed, and Run up to the loop that initialises the queue
SRInit ==
  /\ feed = [Stops |-> [s \in Range(SRStopIds) |->
                          [Location_type |-> 0, Parent_station |-> None]]]
  /\ feed0 = feed
  /\ pc = "neighs"
  /\ \E tab \in [SRPairs -> SRSimis] :
       loc = [tab |-> tab,
              clusters |-> [c \in SRClusterIds |-> <<SRStopIds[c + 1]>>],
              neighs |-> [c \in SRClusterIds |-> <<>>],
              pq |-> NewPriorityQueue(Len(SRStopIds)),
              cId |-> 0,
              top |-> SRNil,
              neigh |-> 0,
              k |-> 0,
              merges |-> <<>>]

\* Run: one iteration of "init the pq from the clusters"
SRNeighs ==
  /\ pc = "neighs"
  /\ loc.cId < Len(SRStopIds)
  /\ \E s \in SRSorted(getNearestClusters(loc.tab, loc.cId, loc.clusters)) :
       loc' = [loc EXCEPT
                 !.neighs[loc.cId] = s,
                 !.pq.Items[loc.cId + 1] =
                    [value |-> loc.cId,
                     priority |-> IF s = <<>> THEN 0 ELSE s[Len(s)].simi],
                 !.pq.Pqids[loc.cId + 1] = loc.cId,
                 !.cId = @ + 1]
  /\ UNCHANGED <<feed, feed0, pc>>

\* Run: heap.Init
SRHeapInit ==
  /\ pc = "neighs"
  /\ loc.cId = Len(SRStopIds)
  /\ loc' = [loc EXCEPT !.pq = heapInit(@)]
  /\ pc' = "pop"
  /\ UNCHANGED <<feed, feed0>>

\* the clusters that were the source of a merge
SRRemoved(merges) == {merges[i].src : i \in DOMAIN merges}

\* Run: heap.Pop and the body of the merge loop up to "clear secondary
\* cluster"
SRPop ==
  /\ pc = "pop"
  /\ LET p == heapPop(loc.pq)
         top == p.item
         pq == p.pq
     IN IF Len(pq.Items) = 0 \/ top.priority < SRThreshold
        THEN /\ loc' = [loc EXCEPT !.pq = pq, !.top = top]
             /\ pc' = "write"
        ELSE LET ns == loc.neighs[top.value]
                 neigh == ns[Len(ns)]
                 deleted == SRDeleted(pq, neigh.id)
                 trimmed == SubSeq(ns, 1, Len(ns) - 1)
                 neighs1 == IF deleted
                            THEN [loc.neighs EXCEPT ![top.value] = trimmed]
                            ELSE loc.neighs
             IN IF deleted /\ trimmed # <<>>
                THEN /\ loc' = [loc EXCEPT
                                  !.neighs = neighs1,
                                  !.top = SRNil,
                                  !.pq = heapPush(pq,
                                           [top EXCEPT !.priority =
                                              trimmed[Len(trimmed)].simi])]
                     /\ pc' = "pop"
                ELSE /\ loc' = [loc EXCEPT
                                  !.neighs = neighs1,
                                  !.pq = pq,
                                  !.top = top,
                                  !.neigh = neigh.id,
                                  !.k = 1,
                                  !.clusters =
                                     [@ EXCEPT
                                        ![neigh.id] = @ \o
                                           loc.clusters[top.value],
                                        ![top.value] = <<>>],
                                  !.merges = Append(@,
                                     [src |-> top.value, dst |-> neigh.id,
                                      removed |-> SRRemoved(loc.merges)])]
                     /\ pc' = "updateNeighIn"
  /\ UNCHANGED <<feed, feed0>>

\* Run: one iteration of "update primary cluster neighbor in each neighbor"
SRUpdateNeighIn ==
  /\ pc = "updateNeighIn"
  /\ loc.k <= Len(loc.neighs[loc.neigh])
  /\ \E r \in updateNeighIn(loc.tab, loc.neighs[loc.neigh][loc.k].id,
                            loc.neigh, loc.clusters, loc.neighs, loc.pq) :
       loc' = [loc EXCEPT !.neighs = r.neighs, !.pq = r.pq, !.k = @ + 1]
  /\ UNCHANGED <<feed, feed0, pc>>

\* Run: "update neighs of primary cluster", the end of the loop body
SRUpdateNeighs ==
  /\ pc = "updateNeighIn"
  /\ loc.k > Len(loc.neighs[loc.neigh])
  /\ \E r \in updateNeighs(loc.tab, loc.neigh, loc.clusters, loc.neighs,
                           loc.pq) :
       loc' = [loc EXCEPT !.neighs = r.neighs, !.pq = r.pq, !.top = SRNil]
  /\ pc' = "pop"
  /\ UNCHANGED <<feed, feed0>>

\* the station of stop s after writeCluster on every cluster with more
\* than one stop
SRParentOf(clusters, s) ==
  LET cs == {c \in SRClusterIds :
               Len(clusters[c]) > 1 /\ s \in Range(clusters[c])}
  IN IF cs = {} THEN None
     ELSE SRParentId[clusters[CHOOSE c \in cs : TRUE][1]]

\* Run: "translate the new cluster into the stop relationship"
SRWrite ==
  /\ pc = "write"
  /\ LET parents == {SRParentOf(loc.clusters, s) : s \in Range(SRStopIds)}
                      \ {None}
     IN feed' = [Stops |->
                   [s \in DOMAIN feed.Stops \cup parents |->
                      IF s \in parents
                      THEN [Location_type |-> 1, Parent_station |-> None]
                      ELSE [feed.Stops[s] EXCEPT
                              !.Parent_station =
                                 SRParentOf(loc.clusters, s)]]]
  /\ pc' = "done"
  /\ UNCHANGED <<feed0, loc>>

SRNext ==
  \/ SRNeighs
  \/ SRHeapInit
  \/ SRPop
  \/ SRUpdateNeighIn
  \/ SRUpdateNeighs
  \/ SRWrite

SpecSR == SRInit /\ [][SRNext]_vars

\* no merge has a cluster as its source or target that was merged into
\* another cluster before
SRNoMergeWithRemoved ==
  \A i \in DOMAIN loc.merges :
    /\ loc.merges[i].src \notin loc.merges[i].removed
    /\ loc.merges[i].dst \notin loc.merges[i].removed

\* the handle table gives, for every item of the heap, the position of the
\* item, and every cluster that was not merged away has an item while the
\* merge loop runs
SRHandlesRight ==
  /\ pc \in {"pop", "updateNeighIn", "write", "done"} =>
       \A i \in DOMAIN loc.pq.Items :
         loc.pq.Pqids[loc.pq.Items[i].value + 1] = i - 1
  /\ pc \in {"pop", "updateNeighIn"} =>
       \A c \in SRClusterIds \ SRRemoved(loc.merges) :
         /\ ~SRDeleted(loc.pq, c)
         /\ loc.pq.Items[loc.pq.Pqids[c + 1] + 1].value = c

\* C28: once a cluster has been merged into another cluster it is never
\* again the source or the target of a merge, and the handle table maps
\* every live cluster to its current heap entry after any sequence of
\* pushes, pops and priority updates
C28_StaleEntriesSkipped == SRNoMergeWithRemoved /\ SRHandlesRight

====
